---- MODULE Spec2Model ----
(***************************************************************************)
(* A model of i_love_nvidia/ffmpeg_lut.cu: the LUT loader (loadLUT) and    *)
(* the decode -> transform -> encode orchestrator (main).                  *)
(*                                                                         *)
(* The codec service, the pixel converters, the muxer and the CUDA runtime *)
(* are external: every call into them is modelled by its possible results  *)
(* (success, needs-more-input, end-of-stream, error), chosen freely.       *)
(***************************************************************************)
EXTENDS Integers, Sequences, FiniteSets, TLC

VARIABLES
    pc,          \* position of main
    argc,        \* number of command line words (program name included)
    lutFile,     \* the LUT file named by argv[1]: a sequence of lines, or NoFile
    uninitSize,  \* the indeterminate value LUT3D::size holds before any assignment
    ovfMode,     \* what the build makes of a signed overflow in line 131
    lut,         \* the LUT3D returned by loadLUT (NoLut before)
    setupIdx,    \* index of the setup step main is about to perform
    held,        \* resources acquired and not yet released
    acqOrder,    \* resources in the order they were acquired
    relOrder,    \* resources in the order they were released
    exitCode,    \* process exit status (-1 while running)
    exitAt,      \* the step at which the process ended
    exitVia,     \* "return" from main, or "exit" called by a check macro
    nofile,      \* the output format has AVFMT_NOFILE set
    input,       \* packets av_read_frame has still to deliver
    packet,      \* the packet read last
    ret,         \* main's ret: "ok" (>= 0), "eagain", "eof" or "err" (< 0)
    decPending,  \* frames the decoder holds back (reordering delay)
    decReady,    \* frames the decoder has ready for avcodec_receive_frame
    decFlushed,  \* the decoder was sent the null packet
    decFrame,    \* the frame received last (0: none)
    lastRecv,    \* the last answer of avcodec_receive_frame
    encPending,  \* frames the encoder holds back (lookahead, B-frames)
    encReady,    \* packets the encoder has ready for avcodec_receive_packet
    encFlushed,  \* the encoder was sent the null frame
    encPkt,      \* the packet received last (NoEncPkt: none)
    newEncFrame, \* the frame being prepared for the encoder (NoEncFrame: none)
    muxed,       \* packets written by av_interleaved_write_frame, in order
    sentToEnc,   \* frames accepted by avcodec_send_frame, in order
    unitErr,     \* an error was logged while processing the current packet
    drainEnd,    \* why the last encoder drain loop ended
    trailerErr,  \* av_write_trailer failed
    runErr,      \* some call of the run that main checks has failed (not reset)
    decoded,     \* frames avcodec_receive_frame has handed out, in order
    transformed, \* frames the kernel was dispatched on, in order
    phaseLog,    \* decoder signal, frame sends, packet writes, encoder signal
                 \* and trailer in the order they happened (repeats merged)
    inFlight,    \* kernel launches the device has not been synchronized on
    devLog,      \* uploads, launches, synchronizations, downloads and frees of
                 \* device memory, in the order the host issued them
    codecLog,    \* what the decoder and the encoder were sent: "packet",
                 \* "nullPacket", "frame", "nullFrame" (repeats merged)
    lutDen,      \* the floats of the LUT file are the numbers written / lutDen
    fround,      \* which way float rounding pushed a value about to be truncated
    inPixel,     \* the three bytes d_input[idx..idx+2] of one kernel thread
    outPixel,    \* the three bytes the thread stored at d_output[idx..idx+2]
    lutReads,    \* the LUT indices the thread passed to d_lut[]
    lattice,     \* the lattice indices and weights the thread computed
    lutOnDevice, \* the floats in the device memory behind d_lut
    width,       \* decCtx->width
    height,      \* decCtx->height
    stride,      \* rgbFrame->linesize[0]
    hostFrame,   \* the bytes of rgbFrame->data[0]
    srcFrame,    \* the bytes rgbFrame->data[0] held at the last upload
    d_input,     \* the bytes in the device memory behind d_input
    d_output,    \* the bytes in the device memory behind d_output
    outBefore,   \* the bytes behind d_output at the last launch
    toRun,       \* the threads of the launched grid inside the frame that have
                 \* not run yet
    outsideLeft, \* threads of the launched grid outside the frame have not run yet
    frameNo,     \* the number of the frame in rgbFrame
    inTb,        \* videoStream->time_base
    rFrameRate,  \* videoStream->r_frame_rate
    encTb,       \* encCtx->time_base
    outTb,       \* outStream->time_base
    decPts,      \* decFrame->pts, in ticks of the input timebase
    encPts,      \* newEncFrame->pts, in ticks of the encoder timebase
    outPts,      \* encPkt->pts after av_packet_rescale_ts
    tsLog        \* the timestamps of every frame taken through the two rescales

lutVars  == <<argc, lutFile, uninitSize, ovfMode, lut>>
resVars  == <<held, acqOrder, relOrder>>
exitVars == <<exitCode, exitAt, exitVia>>
decVars  == <<decPending, decReady, decFlushed, decFrame, lastRecv>>
encVars  == <<encPending, encReady, encFlushed, encPkt, newEncFrame>>
logVars  == <<muxed, sentToEnc, unitErr, drainEnd, trailerErr, runErr, decoded, transformed, phaseLog>>
frameVars == <<width, height, stride, hostFrame, srcFrame, d_input, d_output, outBefore,
               toRun, outsideLeft, frameNo>>
timeVars == <<inTb, rFrameRate, encTb, outTb, decPts, encPts, outPts, tsLog>>
kernVars == <<lutDen, fround, inPixel, outPixel, lutReads, lattice>>
devVars  == <<inFlight, devLog>>
pipeVars == <<input, packet, ret, decVars, encVars, logVars, devVars, codecLog>>
vars     == <<pc, lutVars, setupIdx, nofile, resVars, exitVars, pipeVars, kernVars, lutOnDevice,
              frameVars, timeVars>>

----------------------------------------------------------------------------
(* Bounds of the model. *)

MaxData == 9        \* most data lines after the header of a generated LUT file
MaxPackets == 3     \* most packets in an input stream

----------------------------------------------------------------------------
(* Machine integers: int is 32 bits wide (LUT3D::size, line 107). *)

MaxInt == 2147483647
MinInt == (0 - MaxInt) - 1

\* Byte i (0: lowest) of the two's complement pattern of a 32-bit int.
Byte(x, i) ==
    IF i = 0 THEN x % 256
    ELSE IF i = 1 THEN (x \div 256) % 256
    ELSE IF i = 2 THEN (x \div 65536) % 256
    ELSE (x \div 16777216) % 256

\* The 32-bit int with the given bytes.
FromBytes(b0, b1, b2, b3) ==
    b0 + 256 * b1 + 65536 * b2 + 16777216 * (IF b3 >= 128 THEN b3 - 256 ELSE b3)

\* a * b on 32-bit two's complement ints (the low 32 bits of the product),
\* by long multiplication on bytes.
WrapMul(a, b) ==
    LET c0 == Byte(a, 0) * Byte(b, 0)
        c1 == Byte(a, 0) * Byte(b, 1) + Byte(a, 1) * Byte(b, 0)
        c2 == Byte(a, 0) * Byte(b, 2) + Byte(a, 1) * Byte(b, 1) + Byte(a, 2) * Byte(b, 0)
        c3 == Byte(a, 0) * Byte(b, 3) + Byte(a, 1) * Byte(b, 2)
              + Byte(a, 2) * Byte(b, 1) + Byte(a, 3) * Byte(b, 0)
        t1 == c1 + (c0 \div 256)
        t2 == c2 + (t1 \div 256)
        t3 == c3 + (t2 \div 256)
    IN  FromBytes(c0 % 256, t1 % 256, t2 % 256, t3 % 256)

\* a * n (a >= 0, n > 0) computed without wrapping; a negative result stands
\* for a value above MaxInt (no container of the model is that long).
WideMul(a, n) ==
    IF a < 0 THEN a
    ELSE IF a > MaxInt \div n THEN 0 - 1
    ELSE a * n

\* An integer too long for an int, kept as hi * 65536 + lo with 0 <= lo < 65536
\* (hi < 0 for a negative number).
ToBig(n) == [hi |-> n \div 65536, lo |-> n % 65536]

BigMul(x, n) ==                 \* x * n for 0 <= n < 32768
    LET l == x.lo * n
    IN  [hi |-> x.hi * n + (l \div 65536), lo |-> l % 65536]

BigAdd(x, n) ==                 \* x + n for 0 <= n < MaxInt - 65536
    LET l == x.lo + n
    IN  [hi |-> x.hi + (l \div 65536), lo |-> l % 65536]

BigLess(x, y) == x.hi < y.hi \/ (x.hi = y.hi /\ x.lo < y.lo)

\* The low 32 bits of a long integer, as an int.
Low32(x) == FromBytes(x.lo % 256, x.lo \div 256, x.hi % 256, (x.hi \div 256) % 256)

\* size_t expectedEntries = lut.size * lut.size * lut.size * 3;  (line 131)
\* The product is an int product, left to right.  Where it overflows the
\* behaviour is undefined: the build either wraps ("wrap") or computes the
\* product in a wider register ("wide").  A negative int converts to a size_t
\* above MaxInt, which the model keeps as a negative number.
ExpectedEntries(size, mode) ==
    IF mode = "wrap"
        THEN WrapMul(WrapMul(WrapMul(size, size), size), 3)
        ELSE WideMul(WideMul(WideMul(size, size), size), 3)

----------------------------------------------------------------------------
(* LUT files.  A line is a comment/blank line, a header line whose first   *)
(* token is LUT_3D_SIZE (with an int after it, or not), a data line of     *)
(* three floats, or a junk line (neither).                                 *)

NoFile == <<[k |-> "unopenable", n |-> 0, r |-> 0, g |-> 0, b |-> 0]>>
NoLut  == [size |-> 0, data |-> <<>>, err |-> "none"]

Blank      == [k |-> "blank",   n |-> 0, r |-> 0, g |-> 0, b |-> 0]
Comment    == [k |-> "comment", n |-> 0, r |-> 0, g |-> 0, b |-> 0]
Junk       == [k |-> "junk",    n |-> 0, r |-> 0, g |-> 0, b |-> 0]
HdrBad     == [k |-> "hdrbad",  n |-> 0, r |-> 0, g |-> 0, b |-> 0]
Hdr(n)     == [k |-> "hdr",     n |-> n, r |-> 0, g |-> 0, b |-> 0]
DataLine(j) == [k |-> "data",   n |-> 0, r |-> 3 * j, g |-> 3 * j + 1, b |-> 3 * j + 2]

IsHeaderToken(l) == l.k \in {"hdr", "hdrbad"}

\* First loop of loadLUT (lines 118-128): the index of the first line whose
\* first token is LUT_3D_SIZE, 0 when the file ends first.  Every other line
\* (blank, comment, data, junk) is passed over.
RECURSIVE FindHeader(_, _)
FindHeader(file, i) ==
    IF i > Len(file) THEN 0
    ELSE IF IsHeaderToken(file[i]) THEN i
    ELSE FindHeader(file, i + 1)

\* ReadData with an unparseable line stored as a zero entry.
RECURSIVE ReadData_KeepsJunk(_, _)
ReadData_KeepsJunk(file, i) ==
    IF i > Len(file) THEN <<>>
    ELSE IF file[i].k = "data"
        THEN <<file[i].r, file[i].g, file[i].b>> \o ReadData_KeepsJunk(file, i + 1)
    ELSE IF file[i].k = "junk"
        THEN <<0, 0, 0>> \o ReadData_KeepsJunk(file, i + 1)
    ELSE ReadData_KeepsJunk(file, i + 1)

\* Second loop of loadLUT (lines 133-142): the floats pushed for the lines
\* from index i on.  Only a line that parses as three floats is pushed.
RECURSIVE ReadData(_, _)
ReadData(file, i) ==
    IF i > Len(file) THEN <<>>
    ELSE IF file[i].k = "data"
        THEN <<file[i].r, file[i].g, file[i].b>> \o ReadData(file, i + 1)
    ELSE ReadData(file, i + 1)

\* The size check of line 129.
SizeMissing(size) == size <= 0

\* The entry count check of line 143 (expected < 0 stands for a size_t above MaxInt).
CountMismatch(n, expected) == n # expected

\* loadLUT (lines 112-146).  err = "none" is a normal return, anything else
\* the runtime_error thrown.
loadLUT(file, garbage, mode) ==
    IF file = NoFile THEN [size |-> 0, data |-> <<>>, err |-> "open"]
    ELSE
    LET h    == FindHeader(file, 1)
        bad  == h > 0 /\ (file[h].k = "hdrbad" \/ file[h].n <= 0)
        size == IF h > 0 THEN file[h].n ELSE garbage
        data == IF h > 0 THEN ReadData(file, h + 1) ELSE <<>>
        expected == ExpectedEntries(size, mode)
    IN  IF bad THEN [size |-> 0, data |-> <<>>, err |-> "invalid"]
        ELSE IF SizeMissing(size) THEN [size |-> size, data |-> <<>>, err |-> "missing"]
        ELSE IF CountMismatch(Len(data), expected)
            THEN [size |-> size, data |-> data, err |-> "count"]
        ELSE [size |-> size, data |-> data, err |-> "none"]

----------------------------------------------------------------------------
(* Device code (lines 40-103).  A float is kept as the exact fraction n/d  *)
(* (d > 0); ok is FALSE for a value read outside an array, of which        *)
(* nothing is known.  Rounding is not applied operation by operation: its  *)
(* net effect is applied where a value is truncated to a byte (ToByte).    *)

Float(n, d) == [ok |-> TRUE, n |-> n, d |-> d]
Garbage     == [ok |-> FALSE, n |-> 0, d |-> 1]

\* int index = ((rr * lutSize * lutSize) + (gg * lutSize) + bb) * 3;  (line 49)
\* An int expression: where it overflows the behaviour is undefined, and the
\* build either keeps the low 32 bits ("wrap") or carries the full value
\* into the address computation ("wide").
LutIndex(rr, gg, bb, lutSize, mode) ==
    LET rn    == BigMul(BigMul(ToBig(rr), lutSize), lutSize)
        exact == BigMul(BigAdd(BigAdd(rn, gg * lutSize), bb), 3)
    IN  IF mode = "wrap" THEN ToBig(Low32(exact)) ELSE exact

\* d_lut[index + c] lies inside an array of len floats.
InArray(index, c, len) ==
    /\ index.hi >= 0
    /\ BigLess(BigAdd(index, c), ToBig(len))

\* d_lut[index + c]  (line 50)
LutRead(d_lut, index, c) ==
    IF InArray(index, c, Len(d_lut))
        THEN Float(d_lut[index.hi * 65536 + index.lo + c + 1], lutDen)
        ELSE Garbage

\* getLut (lines 48-51): the three floats at index, index+1, index+2.
getLut(rr, gg, bb, d_lut, lutSize) ==
    LET index == LutIndex(rr, gg, bb, lutSize, ovfMode)
    IN  <<LutRead(d_lut, index, 0), LutRead(d_lut, index, 1), LutRead(d_lut, index, 2)>>

\* a + t * (b - a) on one component (lines 42-44); a and b have the same
\* denominator wherever the kernel calls it.
LerpF(a, b, t) ==
    IF a.ok /\ b.ok /\ t.ok
        THEN Float(a.n * t.d + t.n * (b.n - a.n), a.d * t.d)
        ELSE Garbage

\* lerp (lines 41-45)
lerp(a, b, t) == <<LerpF(a[1], b[1], t), LerpF(a[2], b[2], t), LerpF(a[3], b[3], t)>>

\* The white test with the blue channel forgotten.
IsWhite_TwoChannels(p) == p[1] = 255 /\ p[2] = 255

\* The test of line 65.
IsWhite(p) == p[1] = 255 /\ p[2] = 255 /\ p[3] = 255

\* int r1 = min(r0 + 1, lutSize - 1);  (lines 77-79)
UpperIndex(i0, lutSize) == IF i0 + 1 < lutSize - 1 THEN i0 + 1 ELSE lutSize - 1

\* The axis with the channel scaled by lutSize instead of lutSize - 1.
Axis_ScaleBySize(c, lutSize) ==
    LET i0 == (c * lutSize) \div 255
    IN  [i0 |-> i0,
         i1 |-> UpperIndex(i0, lutSize),
         d  |-> Float((c * lutSize) % 255, 255)]

\* One axis of lines 70-80: r = c / 255.f; fr = r * (lutSize - 1);
\* r0 = floorf(fr); r1 = min(r0 + 1, lutSize - 1); dr = fr - r0.
\* (In float arithmetic fr is the integer itself wherever c * (lutSize - 1)
\* is a multiple of 255, and at least 1/255 away from one elsewhere, so
\* floorf yields the exact floor.)
Axis(c, lutSize) ==
    LET i0 == (c * (lutSize - 1)) \div 255
    IN  [i0 |-> i0,
         i1 |-> UpperIndex(i0, lutSize),
         d  |-> Float((c * (lutSize - 1)) % 255, 255)]

\* The lattice coordinates of the eight getLut calls of lines 82-89, under
\* the names of the variables they are assigned to.
Corners(R, G, B) ==
    [c000 |-> <<R.i0, G.i0, B.i0>>, c100 |-> <<R.i1, G.i0, B.i0>>,
     c010 |-> <<R.i0, G.i1, B.i0>>, c001 |-> <<R.i0, G.i0, B.i1>>,
     c101 |-> <<R.i1, G.i0, B.i1>>, c011 |-> <<R.i0, G.i1, B.i1>>,
     c110 |-> <<R.i1, G.i1, B.i0>>, c111 |-> <<R.i1, G.i1, B.i1>>]

CornerNames == {"c000", "c100", "c010", "c001", "c101", "c011", "c110", "c111"}

\* The blends with c10 formed from the wrong pair of corners.
Blend_WrongPair(v, dr, dg, db) ==
    LET c00 == lerp(v.c000, v.c100, dr)
        c01 == lerp(v.c001, v.c101, dr)
        c10 == lerp(v.c010, v.c111, dr)
        c11 == lerp(v.c011, v.c111, dr)
        c0  == lerp(c00, c10, dg)
        c1  == lerp(c01, c11, dg)
    IN  lerp(c0, c1, db)

\* Lines 91-97.
Blend(v, dr, dg, db) ==
    LET c00 == lerp(v.c000, v.c100, dr)
        c01 == lerp(v.c001, v.c101, dr)
        c10 == lerp(v.c010, v.c110, dr)
        c11 == lerp(v.c011, v.c111, dr)
        c0  == lerp(c00, c10, dg)
        c1  == lerp(c01, c11, dg)
    IN  lerp(c0, c1, db)

\* x * 255.f
Times255(x) ==
    IF x.d % 255 = 0 THEN Float(x.n, x.d \div 255) ELSE Float(x.n * 255, x.d)

\* x + 0.5f
PlusHalf(x) == Float(2 * x.n + x.d, 2 * x.d)

\* RoundSlack-th of a unit: more than the rounding error the float
\* operations of one thread add up to, for values up to 512.
RoundSlack == 1024

\* The float the device holds for the exact value x, as far as truncation
\* can tell: a value less than 1/RoundSlack above an integer may have been
\* rounded to just below it, one less than 1/RoundSlack below it to it.
Rounded(x, round) ==
    LET q == x.n \div x.d
        f == x.n % x.d
    IN  IF round = "below" /\ f * RoundSlack < x.d THEN Float(q * x.d - 1, x.d)
        ELSE IF round = "above" /\ (x.d - f) * RoundSlack <= x.d THEN Float((q + 1) * x.d, x.d)
        ELSE x

fmaxf(x, m) == IF x.n < m * x.d THEN Float(m, 1) ELSE x
fminf(x, m) == IF x.n > m * x.d THEN Float(m, 1) ELSE x

\* The byte stored by a thread whose value is not known.
UnknownByte == 0 - 1

\* static_cast<unsigned char>(fminf(fmaxf(c.x * 255.f + 0.5f, 0.f), 255.f))
\* (lines 100-102): the cast drops the fraction of a value in [0, 255].
ToByte(x, round) ==
    IF ~x.ok THEN UnknownByte
    ELSE LET v == fminf(fmaxf(Rounded(PlusHalf(Times255(x)), round), 0), 255)
         IN  v.n \div v.d

\* The LUT indices of one thread: one per corner (lines 82-89).
CornerIndices(p, lutSize, mode) ==
    LET k == Corners(Axis(p[1], lutSize), Axis(p[2], lutSize), Axis(p[3], lutSize))
    IN  {LutIndex(k[c][1], k[c][2], k[c][3], lutSize, mode) : c \in CornerNames}

\* The body of applyLUTKernel for one pixel inside the frame (lines 64-102):
\* the three bytes stored.
applyLUTKernel(p, d_lut, lutSize, round) ==
    IF IsWhite(p) THEN <<255, 255, 255>>
    ELSE
    LET R == Axis(p[1], lutSize)
        G == Axis(p[2], lutSize)
        B == Axis(p[3], lutSize)
        k == Corners(R, G, B)
        v == [c \in CornerNames |-> getLut(k[c][1], k[c][2], k[c][3], d_lut, lutSize)]
        c == Blend(v, R.d, G.d, B.d)
    IN  <<ToByte(c[1], round), ToByte(c[2], round), ToByte(c[3], round)>>

NoPixel   == <<>>
NoLattice == [i0 |-> <<>>, i1 |-> <<>>]

\* One thread of the kernel on its pixel.
KernelThread ==
    /\ pc = "k_thread"
    /\ outPixel' = applyLUTKernel(inPixel, lut.data, lut.size, fround)
    /\ IF IsWhite(inPixel)
          THEN /\ lutReads' = {}
               /\ lattice' = NoLattice
          ELSE LET R == Axis(inPixel[1], lut.size)
                   G == Axis(inPixel[2], lut.size)
                   B == Axis(inPixel[3], lut.size)
               IN  /\ lutReads' = CornerIndices(inPixel, lut.size, ovfMode)
                   /\ lattice' = [i0 |-> <<R.i0, G.i0, B.i0>>, i1 |-> <<R.i1, G.i1, B.i1>>]
    /\ pc' = "k_done"
    /\ UNCHANGED <<timeVars, frameVars, lutOnDevice, lutVars, setupIdx, nofile, resVars, exitVars, pipeVars,
                   lutDen, fround, inPixel>>

----------------------------------------------------------------------------
(* Generated input files. *)

HeaderSizes == {0 - 1, 0, 1, 2, 1290, 1291, 2048, MaxInt}
UninitInts  == {0 - 7, 0, 2, 2048}
OvfModes    == {"wrap", "wide"}

Prefixes == {<<>>, <<Comment>>, <<Blank>>, <<Junk>>, <<DataLine(50)>>}
Headers  == {<<>>, <<HdrBad>>} \cup {<<Hdr(n)>> : n \in HeaderSizes}
Mids     == {<<>>, <<Junk>>, <<Comment>>}
Bodies   == {[j \in 1..k |-> DataLine(j - 1)] : k \in 0..MaxData}

Splice(body, mid) ==
    LET c == Len(body) \div 2
    IN  SubSeq(body, 1, c) \o mid \o SubSeq(body, c + 1, Len(body))

LutFiles ==
    {NoFile} \cup
    {p \o h \o Splice(b, m) : p \in Prefixes, h \in Headers, b \in Bodies, m \in Mids}

\* A file that loads under any treatment of the undefined cases.
GoodLutFile == <<Comment, Hdr(1), DataLine(0)>>

\* A file written from a cube: the size header, then one line per entry in
\* the order of the flat sequence.
WriteCube(N, flat) ==
    <<Hdr(N)>> \o [j \in 1..(Len(flat) \div 3) |->
        [k |-> "data", n |-> 0, r |-> flat[3 * j - 2], g |-> flat[3 * j - 1], b |-> flat[3 * j]]]

MaxCube == 3        \* largest identity cube generated

\* The identity cube of size N in the order of line 49, as numerators over
\* N - 1: the entry of (r,g,b) is (r, g, b) / (N - 1).
IdentityFlat(N) ==
    [i \in 1..(3 * N * N * N) |->
        LET e == (i - 1) \div 3
        IN  <<e \div (N * N), (e \div N) % N, e % N>>[((i - 1) % 3) + 1]]

\* A cube of size 2, as numerators over 4, with entries below 0 and above 1
\* and a top corner that is not white.
WildFlat == <<0 - 2, 0, 1,   0, 4, 6,   1, 8, 3,   2, 0 - 4, 4,
              3, 2, 0,       4, 1, 0 - 1,   6, 3, 2,   2, 3, 1>>

KernelCubes ==
    {[file |-> WriteCube(N, IdentityFlat(N)), den |-> N - 1] : N \in 2..MaxCube}
    \cup {[file |-> WriteCube(2, WildFlat), den |-> 4],
          [file |-> WriteCube(1, <<1, 2, 4>>), den |-> 4],
          [file |-> <<Hdr(2048)>>, den |-> 1]}

Channels   == {0, 1, 63, 64, 127, 128, 191, 254, 255}
Pixels     == {<<r, g, b>> : r \in Channels, g \in Channels, b \in Channels}
RoundModes == {"below", "exact", "above"}

----------------------------------------------------------------------------
(* Process exit. *)

\* return EXIT_FAILURE from main, or exit() from CUDA_CHECK / AV_CHECK
\* (lines 19-38): the process ends where it stands, nothing is released.
Die(at, via) ==
    /\ pc' = "exited"
    /\ exitCode' = 1
    /\ exitAt' = at
    /\ exitVia' = via

----------------------------------------------------------------------------
(* main: argument check and LUT load (lines 148-178). *)

CheckArgs ==
    /\ pc = "args"
    /\ IF argc < 4
          THEN Die("args", "return")
          ELSE /\ pc' = "loadLUT"
               /\ UNCHANGED exitVars
    /\ UNCHANGED <<timeVars, frameVars, lutOnDevice, kernVars, lutVars, setupIdx, nofile, resVars, pipeVars>>

LoadLUT ==
    /\ pc = "loadLUT"
    /\ LET res == loadLUT(lutFile, uninitSize, ovfMode)
       IN  /\ lut' = res
           /\ IF res.err # "none"
                 THEN Die("loadLUT", "return")
                 ELSE /\ pc' = "setup"
                      /\ UNCHANGED exitVars
    /\ UNCHANGED <<timeVars, frameVars, lutOnDevice, kernVars, argc, lutFile, uninitSize, ovfMode, setupIdx, nofile, resVars, pipeVars>>

----------------------------------------------------------------------------
(* main: pipeline construction (lines 179-348).  Each step is one call     *)
(* that may fail; acq lists what a successful call hands to main, via how  *)
(* main ends when it fails.                                                *)

SetupSteps == <<
    [name |-> "cudaMalloc_d_lut",        acq |-> <<"d_lut">>,         via |-> "exit"],
    [name |-> "cudaMemcpy_d_lut",        acq |-> <<>>,                via |-> "exit"],
    [name |-> "avformat_open_input",     acq |-> <<"inFmtCtx">>,      via |-> "exit"],
    [name |-> "avformat_find_stream_info", acq |-> <<>>,              via |-> "exit"],
    [name |-> "find_video_stream",       acq |-> <<>>,                via |-> "return"],
    [name |-> "avcodec_find_decoder",    acq |-> <<>>,                via |-> "return"],
    [name |-> "alloc_decCtx",            acq |-> <<"decCtx">>,        via |-> "return"],
    [name |-> "parameters_to_context",   acq |-> <<>>,                via |-> "exit"],
    [name |-> "open_decoder",            acq |-> <<>>,                via |-> "exit"],
    [name |-> "sws_toRGB",               acq |-> <<"swsCtxToRGB">>,   via |-> "return"],
    [name |-> "alloc_output_context",    acq |-> <<"outFmtCtx">>,     via |-> "return"],
    [name |-> "avcodec_find_encoder",    acq |-> <<>>,                via |-> "return"],
    [name |-> "avformat_new_stream",     acq |-> <<>>,                via |-> "return"],
    [name |-> "alloc_encCtx",            acq |-> <<"encCtx">>,        via |-> "return"],
    [name |-> "open_encoder",            acq |-> <<>>,                via |-> "exit"],
    [name |-> "parameters_from_context", acq |-> <<>>,                via |-> "exit"],
    [name |-> "avio_open",               acq |-> <<"outFile">>,       via |-> "exit"],
    [name |-> "write_header",            acq |-> <<>>,                via |-> "exit"],
    [name |-> "sws_fromRGB",             acq |-> <<"swsCtxFromRGB">>, via |-> "return"],
    [name |-> "alloc_frames",            acq |-> <<"decFrame", "rgbFrame", "encFrame">>,
                                                                      via |-> "return"],
    [name |-> "rgbFrame_get_buffer",     acq |-> <<>>,                via |-> "exit"],
    [name |-> "encFrame_get_buffer",     acq |-> <<>>,                via |-> "exit"],
    [name |-> "cudaMalloc_d_input",      acq |-> <<"d_input">>,       via |-> "exit"],
    [name |-> "cudaMalloc_d_output",     acq |-> <<"d_output">>,      via |-> "exit"],
    [name |-> "av_packet_alloc",         acq |-> <<"packet">>,        via |-> "return"] >>

Range(s) == {s[i] : i \in DOMAIN s}

\* The step that opens the encoder, the first after the timebase setup.
EncoderOpenStep == CHOOSE i \in DOMAIN SetupSteps : SetupSteps[i].name = "open_encoder"

\* avio_open is not called for a format with AVFMT_NOFILE (line 300).
Skipped(step) == step.name = "avio_open" /\ nofile

\* What a failing step leaves behind: of several allocations made before the
\* check (line 317-320), any but all may have succeeded.
PartialAcq(acq) ==
    IF acq = <<>> THEN {<<>>} ELSE
    {SelectSeq(acq, LAMBDA x : x \in S) : S \in (SUBSET Range(acq)) \ {Range(acq)}}

Acquire(got) ==
    /\ held' = held \cup Range(got)
    /\ acqOrder' = acqOrder \o got
    /\ UNCHANGED relOrder

\* After the last setup step main enters the processing loop (line 352).
AfterSetup(i) == IF i = Len(SetupSteps) THEN "m_read" ELSE "setup"

SetupOk ==
    /\ pc = "setup"
    /\ LET step == SetupSteps[setupIdx]
       IN  /\ Acquire(IF Skipped(step) THEN <<>> ELSE step.acq)
           /\ lutOnDevice' = IF step.name = "cudaMemcpy_d_lut" THEN lut.data ELSE lutOnDevice
           /\ pc' = AfterSetup(setupIdx)
           /\ setupIdx' = setupIdx + 1
    /\ UNCHANGED <<timeVars, frameVars, kernVars, lutVars, nofile, exitVars, pipeVars>>

SetupFail ==
    /\ pc = "setup"
    /\ LET step == SetupSteps[setupIdx]
       IN  /\ ~Skipped(step)
           /\ \E got \in PartialAcq(step.acq) : Acquire(got)
           /\ Die(step.name, step.via)
    /\ UNCHANGED <<timeVars, frameVars, lutOnDevice, kernVars, lutVars, setupIdx, nofile, pipeVars>>

----------------------------------------------------------------------------
(* The codec service.  A decoder may hold frames back and hand out several *)
(* at once; so may the encoder with packets.                               *)

NoPacket == [video |-> FALSE, id |-> 0]

Neg(r) == r # "ok"          \* ret < 0

\* The ways a codec that took one more unit may move units from its held
\* back queue to its ready queue: any number from the front.
Releases(pending, ready) ==
    {[pending |-> SubSeq(pending, k + 1, Len(pending)),
      ready   |-> ready \o SubSeq(pending, 1, k)] : k \in 0..Len(pending)}

\* What a drain call answers when the codec has nothing ready.
Empty(flushed) == IF flushed THEN "eof" ELSE "eagain"

----------------------------------------------------------------------------
(* Timestamps.  A timestamp is the presentation time of a frame (of),      *)
(* counted in a timebase (tb): that of the input stream ("in"), of the     *)
(* encoder ("enc") or of the output stream ("out").  A number rescaled     *)
(* from a timebase it is not counted in is "wrong"; NoPts is               *)
(* AV_NOPTS_VALUE.                                                         *)

NoPts == [of |-> 0, tb |-> "none"]

Ts(id, tb) == [of |-> id, tb |-> tb]

\* decFrame->pts: the decoder stamps a frame in the timebase of its stream.
DecPts(id) == Ts(id, "in")

\* av_rescale_q(ts, from, to)
av_rescale_q(ts, from, to) ==
    IF ts.tb = from THEN [ts EXCEPT !.tb = to] ELSE [ts EXCEPT !.tb = "wrong"]

\* av_packet_rescale_ts with the decode timestamp left as it was.
av_packet_rescale_ts_PtsOnly(pkt, from, to) ==
    [pkt EXCEPT !.pts = IF pkt.pts = NoPts THEN NoPts ELSE av_rescale_q(pkt.pts, from, to)]

\* av_packet_rescale_ts(pkt, from, to): pts and dts, each unless it is unset.
av_packet_rescale_ts(pkt, from, to) ==
    [pkt EXCEPT !.pts = IF pkt.pts = NoPts THEN NoPts ELSE av_rescale_q(pkt.pts, from, to),
                !.dts = IF pkt.dts = NoPts THEN NoPts ELSE av_rescale_q(pkt.dts, from, to)]

NoEncFrame == [id |-> 0, pts |-> NoPts, pkt_dts |-> NoPts]
NoEncPkt   == [id |-> 0, pts |-> NoPts, dts |-> NoPts]

\* The frame properties with the timestamp copied, not rescaled.
FrameProps_NoRescale(id) ==
    [id |-> id, pts |-> DecPts(id), pkt_dts |-> NoPts]

\* newEncFrame->pts = av_rescale_q(decFrame->pts, videoStream->time_base,
\* encCtx->time_base); newEncFrame->pkt_dts = AV_NOPTS_VALUE;
\* (lines 415-416; 514-515 in the flush)
FrameProps(id) ==
    [id |-> id, pts |-> av_rescale_q(DecPts(id), "in", "enc"), pkt_dts |-> NoPts]

\* The packet the encoder makes of a frame: the frame's pts as it came, and a
\* decode timestamp of the encoder's own, counted in the encoder timebase.
Encoded(frame) ==
    [id |-> frame.id, pts |-> frame.pts, dts |-> Ts(frame.id, "enc")]

\* phaseLog with one more event; repeated sends and writes are merged.
Log(ev) ==
    IF ev \in {"send", "mux"} /\ phaseLog # <<>> /\ phaseLog[Len(phaseLog)] = ev
        THEN phaseLog
        ELSE Append(phaseLog, ev)

\* codecLog with one more call; repeated calls of a kind are merged.
Sent(what) ==
    IF codecLog # <<>> /\ codecLog[Len(codecLog)] = what
        THEN codecLog
        ELSE Append(codecLog, what)

\* An entry of devLog: the call, the frame in hand and the device buffers
\* the call reads or writes.
DevOp(op, frame, bufs) == [op |-> op, frame |-> frame, bufs |-> bufs]

\* A failure main sees: "Error ..." is printed.
Failed ==
    /\ unitErr' = TRUE
    /\ runErr' = TRUE

----------------------------------------------------------------------------
(* main: the processing loop (lines 350-462). *)

\* The read with every packet taken for one of the video stream.
ReadPacket_AnyStream ==
    /\ pc = "m_read"
    /\ IF input = <<>>
          THEN /\ pc' = "d_signal"
               /\ UNCHANGED <<input, packet, unitErr>>
          ELSE /\ packet' = Head(input)
               /\ input' = Tail(input)
               /\ unitErr' = FALSE
               /\ pc' = "m_send"
    /\ UNCHANGED <<timeVars, frameVars, lutOnDevice, kernVars, devVars, codecLog, lutVars, setupIdx, nofile, resVars, exitVars, ret, decVars,
                   encVars, muxed, sentToEnc, drainEnd, trailerErr, runErr, decoded,
                   transformed, phaseLog>>

\* while (av_read_frame(inFmtCtx, packet) >= 0), and the stream test of line 353.
ReadPacket ==
    /\ pc = "m_read"
    /\ IF input = <<>>
          THEN /\ pc' = "d_signal"
               /\ UNCHANGED <<input, packet, unitErr>>
          ELSE /\ packet' = Head(input)
               /\ input' = Tail(input)
               /\ unitErr' = FALSE
               /\ pc' = IF Head(input).video THEN "m_send" ELSE "m_unref"
    /\ UNCHANGED <<timeVars, frameVars, lutOnDevice, kernVars, devVars, codecLog, lutVars, setupIdx, nofile, resVars, exitVars, ret, decVars,
                   encVars, muxed, sentToEnc, drainEnd, trailerErr, runErr, decoded,
                   transformed, phaseLog>>

\* Where main goes when avcodec_send_packet fails (lines 355-358): the break
\* leaves the while loop of line 352.
SendPacketFailed == "d_signal"

\* ret = avcodec_send_packet(decCtx, packet)  (lines 354-358)
SendPacket ==
    /\ pc = "m_send"
    /\ \/ /\ ret' = "ok"
          /\ \E rel \in Releases(Append(decPending, packet.id), decReady) :
                /\ decPending' = rel.pending
                /\ decReady' = rel.ready
          /\ pc' = "m_recv"
          /\ UNCHANGED <<unitErr, runErr>>
       \/ /\ ret' = "err"
          /\ Failed
          /\ pc' = SendPacketFailed
          /\ UNCHANGED <<decPending, decReady>>
    /\ codecLog' = Sent("packet")
    /\ UNCHANGED <<timeVars, frameVars, lutOnDevice, kernVars, devVars, lutVars, setupIdx, nofile, resVars, exitVars, input, packet,
                   decFlushed, decFrame, lastRecv, encVars, muxed, sentToEnc, drainEnd,
                   trailerErr, decoded, transformed, phaseLog>>

\* ret = avcodec_receive_frame(decCtx, decFrame) and the tests after it
\* (lines 360-366 in the loop; line 466 in the flush, where any answer but 0
\* ends the loop).
ReceiveFrameAt(here, next, brk) ==
    /\ pc = here
    /\ IF decReady = <<>>
          THEN /\ ret' = Empty(decFlushed)
               /\ lastRecv' = Empty(decFlushed)
               /\ pc' = brk
               /\ UNCHANGED <<decReady, decFrame, unitErr, runErr, decoded>>
          ELSE \/ /\ ret' = "ok"
                  /\ lastRecv' = "ok"
                  /\ decFrame' = Head(decReady)
                  /\ decReady' = Tail(decReady)
                  /\ decoded' = Append(decoded, Head(decReady))
                  /\ pc' = next
                  /\ UNCHANGED <<unitErr, runErr>>
               \/ /\ ret' = "err"
                  /\ lastRecv' = "err"
                  /\ decReady' = Tail(decReady)
                  /\ Failed
                  /\ pc' = brk
                  /\ UNCHANGED <<decFrame, decoded>>
    /\ UNCHANGED <<timeVars, frameVars, lutOnDevice, kernVars, devVars, codecLog, lutVars, setupIdx, nofile, resVars, exitVars, input, packet,
                   decPending, decFlushed, encVars, muxed, sentToEnc, drainEnd, trailerErr,
                   transformed, phaseLog>>

\* A call on the frame in hand that either succeeds (ret >= 0, go on) or
\* fails (logged, break).
FrameStepAt(here, next, brk) ==
    /\ pc = here
    /\ \/ /\ ret' = "ok"
          /\ pc' = next
          /\ UNCHANGED <<unitErr, runErr>>
       \/ /\ ret' = "err"
          /\ Failed
          /\ pc' = brk
    /\ UNCHANGED <<timeVars, frameVars, lutOnDevice, kernVars, devVars, codecLog, lutVars, setupIdx, nofile, resVars, exitVars, input, packet,
                   decVars, encVars, muxed, sentToEnc, drainEnd, trailerErr, decoded,
                   transformed, phaseLog>>

\* A blocking CUDA call under CUDA_CHECK on the frame in hand: it succeeds,
\* or the process exits.
CudaStepAt(here, next, op, bufs) ==
    /\ pc = here
    /\ \/ /\ pc' = next
          /\ devLog' = Append(devLog, DevOp(op, decFrame, bufs))
          /\ UNCHANGED exitVars
       \/ /\ Die(here, "exit")
          /\ UNCHANGED devLog
    /\ UNCHANGED <<timeVars, frameVars, lutOnDevice, kernVars, lutVars, setupIdx, nofile, resVars, input, packet, ret,
                   decVars, encVars, logVars, inFlight, codecLog>>

\* The synchronization returning while the kernel is still running.
SynchronizeAt_NoWait(here, next) ==
    /\ pc = here
    /\ \/ /\ pc' = next
          /\ inFlight' = inFlight
          /\ devLog' = Append(devLog, DevOp("sync", decFrame, {}))
          /\ UNCHANGED exitVars
       \/ /\ Die(here, "exit")
          /\ UNCHANGED devVars
    /\ UNCHANGED <<timeVars, frameVars, lutOnDevice, kernVars, lutVars, setupIdx, nofile, resVars, input, packet, ret,
                   decVars, encVars, logVars, codecLog>>

\* CUDA_CHECK(cudaDeviceSynchronize())  (lines 386, 485): when it returns
\* the kernel launched before has run to its end; on an error the process
\* exits.
SynchronizeAt(here, next) ==
    /\ pc = here
    /\ \/ /\ pc' = next
          /\ inFlight' = 0
          /\ devLog' = Append(devLog, DevOp("sync", decFrame, {}))
          /\ UNCHANGED exitVars
       \/ /\ Die(here, "exit")
          /\ UNCHANGED devVars
    /\ UNCHANGED <<timeVars, frameVars, lutOnDevice, kernVars, lutVars, setupIdx, nofile, resVars, input, packet, ret,
                   decVars, encVars, logVars, codecLog>>

\* applyLUTKernel<<<grid, block>>>(d_input, d_output, ..., d_lut, lut.size);
\* (lines 385, 484): the kernel is launched on the frame in hand and the
\* call returns at once; its result is not looked at.
DispatchAt(here, next) ==
    /\ pc = here
    /\ pc' = next
    /\ transformed' = Append(transformed, decFrame)
    /\ inFlight' = inFlight + 1
    /\ devLog' = Append(devLog, DevOp("launch", decFrame, {"d_input", "d_output", "d_lut"}))
    /\ UNCHANGED <<timeVars, frameVars, lutOnDevice, kernVars, codecLog, lutVars, setupIdx, nofile, resVars, exitVars, input,
                   packet, ret, decVars, encVars, muxed, sentToEnc, unitErr, drainEnd,
                   trailerErr, runErr, decoded, phaseLog>>

\* ret = sws_scale(swsCtxFromRGB, ...) and, when it succeeded, the frame
\* properties (lines 405-418; 504-517).
ConvertFromRGBAt(here, next, brk) ==
    /\ pc = here
    /\ \/ /\ ret' = "ok"
          /\ newEncFrame' = FrameProps(decFrame)
          /\ pc' = next
          /\ UNCHANGED <<unitErr, runErr>>
       \/ /\ ret' = "err"
          /\ Failed
          /\ pc' = brk
          /\ UNCHANGED newEncFrame
    /\ UNCHANGED <<timeVars, frameVars, lutOnDevice, kernVars, devVars, codecLog, lutVars, setupIdx, nofile, resVars, exitVars, input, packet,
                   decVars, encPending, encReady, encFlushed, encPkt, muxed, sentToEnc,
                   drainEnd, trailerErr, decoded, transformed, phaseLog>>

\* ret = avcodec_send_frame(encCtx, newEncFrame) and av_packet_alloc
\* (lines 420-433; 519-532 in the flush).
SendFrameAt(here, next, brk) ==
    /\ pc = here
    /\ \/ /\ ret' = "ok"
          /\ sentToEnc' = Append(sentToEnc, [frame |-> newEncFrame, at |-> here])
          /\ phaseLog' = Log("send")
          /\ \E rel \in Releases(Append(encPending, Encoded(newEncFrame)), encReady) :
                /\ encPending' = rel.pending
                /\ encReady' = rel.ready
          /\ \/ /\ pc' = next
                /\ UNCHANGED <<unitErr, runErr>>
             \/ /\ pc' = brk               \* av_packet_alloc returned null
                /\ Failed
       \/ /\ ret' = "err"
          /\ Failed
          /\ pc' = brk
          /\ UNCHANGED <<sentToEnc, encPending, encReady, phaseLog>>
    /\ codecLog' = Sent("frame")
    /\ UNCHANGED <<timeVars, frameVars, lutOnDevice, kernVars, devVars, lutVars, setupIdx, nofile, resVars, exitVars, input, packet,
                   decVars, encFlushed, encPkt, newEncFrame, muxed, drainEnd, trailerErr,
                   decoded, transformed>>

\* ret = avcodec_receive_packet(encCtx, encPkt) and the tests after it
\* (lines 436-442; 535-541; 570-578).
ReceivePacketAt(here, next, out) ==
    /\ pc = here
    /\ IF encReady = <<>>
          THEN /\ ret' = Empty(encFlushed)
               /\ drainEnd' = Empty(encFlushed)
               /\ pc' = out
               /\ UNCHANGED <<encReady, encPkt, unitErr, runErr>>
          ELSE \/ /\ ret' = "ok"
                  /\ encPkt' = Head(encReady)
                  /\ encReady' = Tail(encReady)
                  /\ pc' = next
                  /\ UNCHANGED <<drainEnd, unitErr, runErr>>
               \/ /\ ret' = "err"
                  /\ encReady' = Tail(encReady)
                  /\ drainEnd' = "err"
                  /\ Failed
                  /\ pc' = out
                  /\ UNCHANGED encPkt
    /\ UNCHANGED <<timeVars, frameVars, lutOnDevice, kernVars, devVars, codecLog, lutVars, setupIdx, nofile, resVars, exitVars, input, packet,
                   decVars, encPending, encFlushed, newEncFrame, muxed, sentToEnc,
                   trailerErr, decoded, transformed, phaseLog>>

\* Where a drain loop goes after av_interleaved_write_frame: back to its
\* condition while (ret >= 0) (lines 435, 534, 563), which holds or not.
AfterWrite(r, again, out) == IF Neg(r) THEN out ELSE again

\* av_packet_rescale_ts(encPkt, encCtx->time_base, outStream->time_base);
\* ret = av_interleaved_write_frame(outFmtCtx, encPkt)  (lines 444-455;
\* 543-554; 580-591): a failure is logged, nothing more.
WritePacketAt(here, again, out) ==
    /\ pc = here
    /\ encPkt' = av_packet_rescale_ts(encPkt, "enc", "out")
    /\ \E r \in {"ok", "err"} :
          /\ ret' = r
          /\ muxed' = IF r = "ok"
                         THEN Append(muxed, [pkt |-> encPkt', at |-> here])
                         ELSE muxed
          /\ phaseLog' = IF r = "ok" THEN Log("mux") ELSE phaseLog
          /\ drainEnd' = IF r = "ok" THEN drainEnd ELSE "write"
          /\ unitErr' = (unitErr \/ r = "err")
          /\ runErr' = (runErr \/ r = "err")
          /\ pc' = AfterWrite(r, again, out)
    /\ UNCHANGED <<timeVars, frameVars, lutOnDevice, kernVars, devVars, codecLog, lutVars, setupIdx, nofile, resVars, exitVars, input, packet,
                   decVars, encPending, encReady, encFlushed, newEncFrame, sentToEnc,
                   trailerErr, decoded, transformed>>

ReceiveFrame   == ReceiveFrameAt("m_recv", "m_toRGB", "m_unref")
ConvertToRGB   == FrameStepAt("m_toRGB", "m_upload", "m_unref")
Upload         == CudaStepAt("m_upload", "m_kernel", "upload", {"d_input"})
Dispatch       == DispatchAt("m_kernel", "m_sync")
Synchronize    == SynchronizeAt("m_sync", "m_download")
Download       == CudaStepAt("m_download", "m_allocEnc", "download", {"d_output"})
AllocEncFrame  == FrameStepAt("m_allocEnc", "m_fromRGB", "m_unref")
ConvertFromRGB == ConvertFromRGBAt("m_fromRGB", "m_sendFrame", "m_unref")
SendFrame      == SendFrameAt("m_sendFrame", "m_recvPkt", "m_unref")
ReceivePacket  == ReceivePacketAt("m_recvPkt", "m_write", "m_endFrame")
WritePacket    == WritePacketAt("m_write", "m_recvPkt", "m_endFrame")

\* The frame loop with its body ending in a jump to itself.
FrameLoop_NeverLeaves(r) == "m_endFrame"

\* Where the frame loop goes at its condition while (ret >= 0) (line 359)
\* with the ret the body left.
FrameLoop(r) == IF Neg(r) THEN "m_unref" ELSE "m_recv"

\* End of the body of the frame loop (lines 456-459) and its condition.
EndFrame ==
    /\ pc = "m_endFrame"
    /\ pc' = FrameLoop(ret)
    /\ UNCHANGED <<timeVars, frameVars, lutOnDevice, kernVars, lutVars, setupIdx, nofile, resVars, exitVars, pipeVars>>

\* av_packet_unref(packet) and back to av_read_frame (lines 461-462).
UnrefPacket ==
    /\ pc = "m_unref"
    /\ pc' = "m_read"
    /\ UNCHANGED <<timeVars, frameVars, lutOnDevice, kernVars, lutVars, setupIdx, nofile, resVars, exitVars, pipeVars>>

----------------------------------------------------------------------------
(* main: decoder flush (lines 464-558). *)

\* The decoder flush left out: on to the encoder flush.
SignalDecoder_SkipsFlush ==
    /\ pc = "d_signal"
    /\ pc' = "e_signal"
    /\ phaseLog' = Log("decSignal")
    /\ codecLog' = Sent("nullPacket")
    /\ UNCHANGED <<timeVars, frameVars, lutOnDevice, kernVars, devVars, lutVars, setupIdx, nofile, resVars, exitVars, input, packet, ret,
                   decVars, encVars, muxed, sentToEnc, unitErr, drainEnd, trailerErr,
                   runErr, decoded, transformed>>

\* avcodec_send_packet(decCtx, nullptr); the result is not looked at.
SignalDecoder ==
    /\ pc = "d_signal"
    /\ \/ /\ decFlushed' = TRUE
          /\ decReady' = decReady \o decPending
          /\ decPending' = <<>>
          /\ UNCHANGED runErr
       \/ /\ runErr' = TRUE
          /\ UNCHANGED <<decPending, decReady, decFlushed>>
    /\ pc' = "f_recv"
    /\ phaseLog' = Log("decSignal")
    /\ codecLog' = Sent("nullPacket")
    /\ UNCHANGED <<timeVars, frameVars, lutOnDevice, kernVars, devVars, lutVars, setupIdx, nofile, resVars, exitVars, input, packet, ret,
                   decFrame, lastRecv, encVars, muxed, sentToEnc, unitErr, drainEnd,
                   trailerErr, decoded, transformed>>

FlushReceiveFrame   == ReceiveFrameAt("f_recv", "f_toRGB", "e_signal")
FlushConvertToRGB   == FrameStepAt("f_toRGB", "f_upload", "e_signal")
FlushUpload         == CudaStepAt("f_upload", "f_kernel", "upload", {"d_input"})
FlushDispatch       == DispatchAt("f_kernel", "f_sync")
FlushSynchronize    == SynchronizeAt("f_sync", "f_download")
FlushDownload       == CudaStepAt("f_download", "f_allocEnc", "download", {"d_output"})
FlushAllocEncFrame  == FrameStepAt("f_allocEnc", "f_fromRGB", "e_signal")
FlushConvertFromRGB == ConvertFromRGBAt("f_fromRGB", "f_sendFrame", "e_signal")
FlushSendFrame      == SendFrameAt("f_sendFrame", "f_recvPkt", "e_signal")
FlushReceivePacket  == ReceivePacketAt("f_recvPkt", "f_write", "f_endFrame")
FlushWritePacket    == WritePacketAt("f_write", "f_recvPkt", "f_endFrame")

\* The end of the flush loop body leading back into the read loop.
FlushEndFrame_BackToRead ==
    /\ pc = "f_endFrame"
    /\ pc' = "m_read"
    /\ UNCHANGED <<timeVars, frameVars, lutOnDevice, kernVars, lutVars, setupIdx, nofile, resVars, exitVars, pipeVars>>

\* End of the body of the flush loop (lines 555-558): back to line 466.
FlushEndFrame ==
    /\ pc = "f_endFrame"
    /\ pc' = "f_recv"
    /\ UNCHANGED <<timeVars, frameVars, lutOnDevice, kernVars, lutVars, setupIdx, nofile, resVars, exitVars, pipeVars>>

----------------------------------------------------------------------------
(* main: encoder flush and trailer (lines 560-601). *)

\* The encoder flush left out: on to the trailer.
SignalEncoder_NotSent ==
    /\ pc = "e_signal"
    /\ pc' = "trailer"
    /\ UNCHANGED <<timeVars, frameVars, lutOnDevice, kernVars, devVars, codecLog, lutVars, setupIdx, nofile, resVars, exitVars, input, packet, ret,
                   decVars, encVars, logVars>>

\* ret = avcodec_send_frame(encCtx, nullptr); if (ret >= 0) ...
SignalEncoder ==
    /\ pc = "e_signal"
    /\ \/ /\ ret' = "ok"
          /\ encFlushed' = TRUE
          /\ encReady' = encReady \o encPending
          /\ encPending' = <<>>
          /\ pc' = "e_alloc"
          /\ UNCHANGED runErr
       \/ /\ ret' = "err"
          /\ pc' = "trailer"
          /\ runErr' = TRUE
          /\ UNCHANGED <<encPending, encReady, encFlushed>>
    /\ phaseLog' = Log("encSignal")
    /\ codecLog' = Sent("nullFrame")
    /\ UNCHANGED <<timeVars, frameVars, lutOnDevice, kernVars, devVars, lutVars, setupIdx, nofile, resVars, exitVars, input, packet,
                   decVars, encPkt, newEncFrame, muxed, sentToEnc, unitErr, drainEnd,
                   trailerErr, decoded, transformed>>

\* AVPacket* encPkt = av_packet_alloc(); if (!encPkt) break;  (lines 564-568)
EncFlushAlloc ==
    /\ pc = "e_alloc"
    /\ \/ /\ pc' = "e_recv"
          /\ UNCHANGED <<drainEnd, runErr>>
       \/ /\ pc' = "trailer"
          /\ drainEnd' = "alloc"
          /\ runErr' = TRUE
    /\ UNCHANGED <<timeVars, frameVars, lutOnDevice, kernVars, devVars, codecLog, lutVars, setupIdx, nofile, resVars, exitVars, input, packet, ret,
                   decVars, encVars, muxed, sentToEnc, unitErr, trailerErr, decoded,
                   transformed, phaseLog>>

EncFlushReceivePacket == ReceivePacketAt("e_recv", "e_write", "trailer")
EncFlushWritePacket   == WritePacketAt("e_write", "e_alloc", "trailer")

\* ret = av_write_trailer(outFmtCtx): a failure is logged  (lines 595-601).
WriteTrailer ==
    /\ pc = "trailer"
    /\ \E ok \in BOOLEAN :
          /\ ret' = IF ok THEN "ok" ELSE "err"
          /\ trailerErr' = ~ok
          /\ runErr' = (runErr \/ ~ok)
    /\ phaseLog' = Log("trailer")
    /\ pc' = "cleanup"
    /\ UNCHANGED <<timeVars, frameVars, lutOnDevice, kernVars, devVars, codecLog, lutVars, setupIdx, nofile, resVars, exitVars, input, packet,
                   decVars, encVars, muxed, sentToEnc, unitErr, drainEnd, decoded,
                   transformed>>

----------------------------------------------------------------------------
(* main: cleanup and exit (lines 603-675). *)

\* The releases with the LUT freed a second time after the frames.
CleanupOrder_LutTwice == <<"outFile", "d_input", "d_output", "d_lut",
                           "swsCtxToRGB", "swsCtxFromRGB",
                           "decFrame", "rgbFrame", "encFrame", "d_lut", "packet",
                           "decCtx", "encCtx", "inFmtCtx", "outFmtCtx">>

\* The order of the release calls of lines 605-671, each under a test that
\* the pointer is set.
CleanupOrder == <<"outFile", "d_input", "d_output", "d_lut",
                  "swsCtxToRGB", "swsCtxFromRGB",
                  "decFrame", "rgbFrame", "encFrame", "packet",
                  "decCtx", "encCtx", "inFmtCtx", "outFmtCtx">>

\* The cudaFree calls (lines 609-620) among the releases.
Frees(released) ==
    LET dev == SelectSeq(released, LAMBDA x : x \in {"d_lut", "d_input", "d_output"})
    IN  [i \in DOMAIN dev |-> DevOp("free", 0, {dev[i]})]

Cleanup ==
    /\ pc = "cleanup"
    /\ relOrder' = relOrder \o SelectSeq(CleanupOrder, LAMBDA x : x \in held)
    /\ held' = held \ Range(CleanupOrder)
    /\ devLog' = devLog \o Frees(SelectSeq(CleanupOrder, LAMBDA x : x \in held))
    /\ pc' = "finish"
    /\ UNCHANGED <<timeVars, frameVars, lutOnDevice, kernVars, lutVars, setupIdx, nofile, acqOrder, exitVars, input, packet,
                   ret, decVars, encVars, logVars, inFlight, codecLog>>

\* "Processing completed successfully."; return EXIT_SUCCESS;
Finish ==
    /\ pc = "finish"
    /\ pc' = "exited"
    /\ exitCode' = 0
    /\ exitAt' = "done"
    /\ exitVia' = "return"
    /\ UNCHANGED <<timeVars, frameVars, lutOnDevice, kernVars, lutVars, setupIdx, nofile, resVars, pipeVars>>

----------------------------------------------------------------------------
(* One frame through the device (lines 325-342, 381-387; 56-62).  A buffer *)
(* is a function from byte offsets 0..frameBytes-1 to bytes; a byte of     *)
(* which nothing is known (device memory never written) is UnknownByte.    *)

MaxFrames == 2      \* most frames sent through the device in one run
MaxAnyOrder == 4    \* most pending threads among which every order is tried

\* dim3 block(16, 16);  (lines 383, 482)
TileDim == 16

\* av_frame_get_buffer(rgbFrame, 32): rows are aligned to 32 bytes (line 329).
RowAlign == 32

FFALIGN(n, a) == ((n + a - 1) \div a) * a

\* The row strides rgbFrame->linesize[0] may have for a width: three bytes a
\* pixel, with or without the padding of the alignment.
Strides(w) == {3 * w, FFALIGN(3 * w, RowAlign)}

\* int frameBytes = rgbFrame->linesize[0] * rgbFrame->height;  (line 340)
FrameBytes(linesize, h) == linesize * h

Offsets(n) == 0..(n - 1)

\* The grid with the tile count rounded down.
GridDim_RoundsDown(n) == n \div TileDim

\* (n + block.x - 1) / block.x  (line 384)
GridDim(n) == (n + TileDim - 1) \div TileDim

\* The threads of applyLUTKernel<<<grid, block>>>: blockIdx and threadIdx.
GridThreads(w, h) ==
    [bx : 0..(GridDim(w) - 1), by : 0..(GridDim(h) - 1),
     tx : 0..(TileDim - 1),    ty : 0..(TileDim - 1)]

\* x and y of a thread (lines 58-59).
ThreadCoord(t) == <<t.bx * TileDim + t.tx, t.by * TileDim + t.ty>>

\* The test of line 60, negated: the thread goes on.
InFrame(x, y, w, h) == ~(x >= w \/ y >= h)

\* int idx = (y * width + x) * 3;  (line 62)
PixelIndex(x, y, w) == (y * w + x) * 3

\* The offsets of d_output a thread stores to (lines 66, 100-102).
ThreadStores(t, w, h) ==
    LET x == ThreadCoord(t)[1]
        y == ThreadCoord(t)[2]
    IN  IF InFrame(x, y, w, h)
            THEN {PixelIndex(x, y, w), PixelIndex(x, y, w) + 1, PixelIndex(x, y, w) + 2}
            ELSE {}

\* The three bytes of a buffer from an offset on.
PixelAt(buf, idx) == <<buf[idx], buf[idx + 1], buf[idx + 2]>>

\* What a thread computes of the three bytes it read; of bytes of which
\* nothing is known, nothing is known.
ThreadPixel(p) ==
    IF UnknownByte \in {p[1], p[2], p[3]}
        THEN <<UnknownByte, UnknownByte, UnknownByte>>
        ELSE applyLUTKernel(p, lutOnDevice, lut.size, fround)

\* A buffer after the three stores of a thread.
Stored(buf, idx, px) ==
    [buf EXCEPT ![idx] = px[1], ![idx + 1] = px[2], ![idx + 2] = px[3]]

\* The offset in the host frame of sample c of the pixel at row y, column x:
\* rows are linesize bytes apart.
HostOffset(x, y, c) == y * stride + 3 * x + c

\* The pixel sws_scale writes at row y, column x of frame n: pixels differ
\* from one another and from frame to frame, and some are white.
SamplePixel(n, x, y) ==
    LET q == y * width + x
    IN  IF (q + n) % 5 = 4 THEN <<255, 255, 255>>
        ELSE <<(53 * q + 101 * n) % 256, (53 * q + 101 * n + 17) % 256,
               (53 * q + 101 * n + 34) % 256>>

\* The host frame after sws_scale wrote frame n into it (lines 371-372):
\* the samples of every row are written, the padding is left as it was.
Converted(buf, n) ==
    [o \in DOMAIN buf |->
        LET y == o \div stride
            r == o % stride
        IN  IF r < 3 * width THEN SamplePixel(n, r \div 3, y)[(r % 3) + 1] ELSE buf[o]]

\* The threads of the grid that pass the test of line 60, and whether
\* there are others.
ThreadsInFrame(w, h) ==
    {t \in GridThreads(w, h) : InFrame(ThreadCoord(t)[1], ThreadCoord(t)[2], w, h)}

HasOutside(w, h) ==
    \E t \in GridThreads(w, h) : ~InFrame(ThreadCoord(t)[1], ThreadCoord(t)[2], w, h)

\* A CUDA call of the round trip failed under CUDA_CHECK.
FrameDie(at) ==
    /\ Die(at, "exit")
    /\ UNCHANGED <<timeVars, frameVars, inFlight>>

\* CUDA_CHECK(cudaMemcpy(d_input, rgbFrame->data[0], frameBytes, HostToDevice))
FrameUpload ==
    /\ pc = "r_upload"
    /\ \/ /\ d_input' = hostFrame
          /\ srcFrame' = hostFrame
          /\ pc' = "r_launch"
          /\ UNCHANGED <<width, height, stride, hostFrame, d_output, outBefore,
                         toRun, outsideLeft, frameNo, inFlight, exitVars>>
       \/ FrameDie("r_upload")
    /\ UNCHANGED <<timeVars, lutOnDevice, kernVars, lutVars, setupIdx, nofile, resVars, input, packet, ret,
                   decVars, encVars, logVars, devLog, codecLog>>

\* applyLUTKernel<<<grid, block>>>(d_input, d_output, width, height, d_lut, lut.size)
FrameLaunch ==
    /\ pc = "r_launch"
    /\ pc' = "r_threads"
    /\ toRun' = ThreadsInFrame(width, height)
    /\ outsideLeft' = HasOutside(width, height)
    /\ outBefore' = d_output
    /\ inFlight' = inFlight + 1
    /\ UNCHANGED <<width, height, stride, hostFrame, srcFrame, d_input, d_output, frameNo>>
    /\ UNCHANGED <<timeVars, lutOnDevice, kernVars, lutVars, setupIdx, nofile, resVars, exitVars, input,
                   packet, ret, decVars, encVars, logVars, devLog, codecLog>>

\* The schedules tried: any pending thread may run next while no more than
\* MaxAnyOrder are pending; of more, the one with the lowest or the one with
\* the highest pixel index.
Schedulable(pending) ==
    IF Cardinality(pending) <= MaxAnyOrder THEN pending
    ELSE {t \in pending :
            \/ \A u \in pending : PixelIndex(ThreadCoord(t)[1], ThreadCoord(t)[2], width)
                                   <= PixelIndex(ThreadCoord(u)[1], ThreadCoord(u)[2], width)
            \/ \A u \in pending : PixelIndex(ThreadCoord(t)[1], ThreadCoord(t)[2], width)
                                   >= PixelIndex(ThreadCoord(u)[1], ThreadCoord(u)[2], width)}

\* The thread storing its pixel over the one it read.
GridThread_InPlace ==
    /\ pc = "r_threads"
    /\ \E t \in Schedulable(toRun) :
          LET idx == PixelIndex(ThreadCoord(t)[1], ThreadCoord(t)[2], width)
          IN  /\ d_input' = Stored(d_input, idx, ThreadPixel(PixelAt(d_input, idx)))
              /\ toRun' = toRun \ {t}
    /\ UNCHANGED <<pc, width, height, stride, hostFrame, srcFrame, d_output, outBefore,
                   outsideLeft, frameNo>>
    /\ UNCHANGED <<timeVars, lutOnDevice, kernVars, lutVars, setupIdx, nofile, resVars, exitVars, pipeVars>>

\* One thread inside the frame, any that has not run: it reads its three
\* bytes of d_input and stores three bytes to d_output at the same index
\* (lines 62-102).
GridThread ==
    /\ pc = "r_threads"
    /\ \E t \in Schedulable(toRun) :
          LET idx == PixelIndex(ThreadCoord(t)[1], ThreadCoord(t)[2], width)
          IN  /\ d_output' = Stored(d_output, idx, ThreadPixel(PixelAt(d_input, idx)))
              /\ toRun' = toRun \ {t}
    /\ UNCHANGED <<pc, width, height, stride, hostFrame, srcFrame, d_input, outBefore,
                   outsideLeft, frameNo>>
    /\ UNCHANGED <<timeVars, lutOnDevice, kernVars, lutVars, setupIdx, nofile, resVars, exitVars, pipeVars>>

\* The threads outside the frame: each returns at line 61, whenever it
\* runs.  They are not told apart.
GridThreadsOutside ==
    /\ pc = "r_threads"
    /\ outsideLeft
    /\ outsideLeft' = FALSE
    /\ UNCHANGED <<pc, width, height, stride, hostFrame, srcFrame, d_input, d_output,
                   outBefore, toRun, frameNo>>
    /\ UNCHANGED <<timeVars, lutOnDevice, kernVars, lutVars, setupIdx, nofile, resVars, exitVars, pipeVars>>

\* CUDA_CHECK(cudaDeviceSynchronize()): it returns when every thread of the
\* grid has run.
FrameSynchronize ==
    /\ pc = "r_threads"
    /\ \/ /\ toRun = {}
          /\ ~outsideLeft
          /\ inFlight' = 0
          /\ pc' = "r_download"
          /\ UNCHANGED <<frameVars, exitVars>>
       \/ FrameDie("r_sync")
    /\ UNCHANGED <<timeVars, lutOnDevice, kernVars, lutVars, setupIdx, nofile, resVars, input, packet, ret,
                   decVars, encVars, logVars, devLog, codecLog>>

\* CUDA_CHECK(cudaMemcpy(rgbFrame->data[0], d_output, frameBytes, DeviceToHost))
FrameDownload ==
    /\ pc = "r_download"
    /\ \/ /\ hostFrame' = d_output
          /\ pc' = "r_next"
          /\ UNCHANGED <<width, height, stride, srcFrame, d_input, d_output, outBefore,
                         toRun, outsideLeft, frameNo, inFlight, exitVars>>
       \/ FrameDie("r_download")
    /\ UNCHANGED <<timeVars, lutOnDevice, kernVars, lutVars, setupIdx, nofile, resVars, input, packet, ret,
                   decVars, encVars, logVars, devLog, codecLog>>

\* The next decoded frame converted into rgbFrame (lines 360-376).
NextFrame ==
    /\ pc = "r_next"
    /\ frameNo < MaxFrames
    /\ frameNo' = frameNo + 1
    /\ hostFrame' = Converted(hostFrame, frameNo + 1)
    /\ pc' = "r_upload"
    /\ UNCHANGED <<width, height, stride, srcFrame, d_input, d_output, outBefore,
                   toRun, outsideLeft>>
    /\ UNCHANGED <<timeVars, lutOnDevice, kernVars, lutVars, setupIdx, nofile, resVars, exitVars, pipeVars>>

\* The shapes of the generated frames: each side is short, or a pixel
\* longer than a tile, but not both sides are long.
Sides == {1, 2, TileDim + 1}
FrameShapes ==
    {s \in Sides \X Sides : s[1] * s[2] <= 2 * (TileDim + 1)}

\* The byte the padding of the host frame holds before the first download.
PadByte == 0

----------------------------------------------------------------------------
(* Timestamps as numbers: the timebase setup (lines 266-276) and the two
   rescales of a frame's presentation timestamp (lines 415 and 446). *)

MaxTs == 8      \* largest decoded timestamp
MaxGap == 3     \* largest distance between the timestamps of successive frames

Rational(n, d) == [num |-> n, den |-> d]
NoRational == Rational(0, 0)
NoTs == 0 - 1

\* av_inv_q: the reciprocal of a rational.
av_inv_q(q) == Rational(q.den, q.num)

\* av_rescale_rnd(a, b, c, AV_ROUND_NEAR_INF): a*b/c rounded to the nearest
\* integer, halfway cases away from zero.
av_rescale_rnd(a, b, c) ==
    IF a < 0 THEN 0 - ((((0 - a) * b) + (c \div 2)) \div c)
    ELSE ((a * b) + (c \div 2)) \div c

\* av_rescale_q(a, bq, cq) on tick counts: a ticks of bq expressed in ticks
\* of cq.
av_rescale_q_ticks(a, bq, cq) == av_rescale_rnd(a, bq.num * cq.den, cq.num * bq.den)

\* Timebases of the input's video stream.
InTimeBases == {Rational(1, 25), Rational(1, 30), Rational(1, 1000)}

\* Frame rates of the input's video stream; 0/1 is an unknown rate.
FrameRates == {Rational(0, 1), Rational(25, 1), Rational(30, 1), Rational(30000, 1001)}

TimeRest == <<frameVars, lutOnDevice, kernVars, lutVars, setupIdx, nofile, resVars, exitVars,
              pipeVars>>

\* Lines 267-276: the encoder counts in frames of r_frame_rate, or in 1/25 s
\* when the rate is unknown; the output stream counts as the input stream.
TimebaseSetup ==
    /\ pc = "t_setup"
    /\ encTb' = IF rFrameRate.num # 0 /\ rFrameRate.den # 0
                THEN av_inv_q(rFrameRate)
                ELSE Rational(1, 25)
    /\ outTb' = inTb
    /\ pc' = "t_decode"
    /\ UNCHANGED <<inTb, rFrameRate, decPts, encPts, outPts, tsLog>>
    /\ UNCHANGED TimeRest

\* avcodec_receive_frame: the next frame's timestamp is later than the last.
DecodeTs ==
    /\ pc = "t_decode"
    /\ \E t \in (decPts + 1)..(decPts + MaxGap) :
          /\ t <= MaxTs
          /\ decPts' = t
    /\ pc' = "t_frame"
    /\ UNCHANGED <<inTb, rFrameRate, encTb, outTb, encPts, outPts, tsLog>>
    /\ UNCHANGED TimeRest

\* Line 415: newEncFrame->pts = av_rescale_q(decFrame->pts, videoStream->time_base,
\* encCtx->time_base).
RescaleFrame ==
    /\ pc = "t_frame"
    /\ encPts' = av_rescale_q_ticks(decPts, inTb, encTb)
    /\ pc' = "t_packet"
    /\ UNCHANGED <<inTb, rFrameRate, encTb, outTb, decPts, outPts, tsLog>>
    /\ UNCHANGED TimeRest

\* Line 446: the encoder hands the frame's timestamp to its packet;
\* av_packet_rescale_ts(encPkt, encCtx->time_base, outStream->time_base).
RescalePacket ==
    /\ pc = "t_packet"
    /\ outPts' = av_rescale_q_ticks(encPts, encTb, outTb)
    /\ tsLog' = tsLog \cup {[dec |-> decPts, enc |-> encPts, out |-> outPts']}
    /\ pc' = "t_decode"
    /\ UNCHANGED <<inTb, rFrameRate, encTb, outTb, decPts, encPts>>
    /\ UNCHANGED TimeRest

----------------------------------------------------------------------------
(* Specifications. *)

InputStreams ==
    UNION {[1..n -> BOOLEAN] : n \in 0..MaxPackets}

Packets(videoAt) == [i \in DOMAIN videoAt |-> [video |-> videoAt[i], id |-> i]]

\* The codec pipeline before the first packet, with no thread of the kernel run.
InitPipe ==
    /\ exitCode = 0 - 1
    /\ exitAt = ""
    /\ exitVia = ""
    /\ packet = NoPacket
    /\ ret = "ok"
    /\ decPending = <<>>
    /\ decReady = <<>>
    /\ decFlushed = FALSE
    /\ decFrame = 0
    /\ lastRecv = "none"
    /\ encPending = <<>>
    /\ encReady = <<>>
    /\ encFlushed = FALSE
    /\ encPkt = NoEncPkt
    /\ newEncFrame = NoEncFrame
    /\ muxed = <<>>
    /\ sentToEnc = <<>>
    /\ unitErr = FALSE
    /\ drainEnd = "none"
    /\ trailerErr = FALSE
    /\ runErr = FALSE
    /\ decoded = <<>>
    /\ transformed = <<>>
    /\ phaseLog = <<>>
    /\ inFlight = 0
    /\ devLog = <<>>
    /\ codecLog = <<>>
    /\ outPixel = NoPixel
    /\ lutReads = {}
    /\ lattice = NoLattice

\* No frame has been converted or uploaded.
NoFrameWork ==
    /\ width = 0
    /\ height = 0
    /\ stride = 0
    /\ hostFrame = <<>>
    /\ srcFrame = <<>>
    /\ d_input = <<>>
    /\ d_output = <<>>
    /\ outBefore = <<>>
    /\ toRun = {}
    /\ outsideLeft = FALSE
    /\ frameNo = 0

\* No timestamp has been rescaled numerically.
NoTimeWork ==
    /\ inTb = NoRational
    /\ rFrameRate = NoRational
    /\ encTb = NoRational
    /\ outTb = NoRational
    /\ decPts = NoTs
    /\ encPts = NoTs
    /\ outPts = NoTs
    /\ tsLog = {}

InitCommon ==
    /\ InitPipe
    /\ NoFrameWork
    /\ NoTimeWork
    /\ lutOnDevice = <<>>
    /\ pc = "args"
    /\ lut = NoLut
    /\ setupIdx = 1
    /\ held = {}
    /\ acqOrder = <<>>
    /\ relOrder = <<>>
    /\ lutDen = 1
    /\ fround = "exact"
    /\ inPixel = NoPixel

\* The whole program on a few LUT files and every short input stream.
Init ==
    /\ InitCommon
    /\ argc \in {2, 4}
    /\ lutFile \in {GoodLutFile, NoFile, <<Hdr(2), DataLine(0)>>}
    /\ uninitSize = 0
    /\ ovfMode = "wrap"
    /\ nofile \in BOOLEAN
    /\ \E v \in InputStreams : input = Packets(v)

SetupNext == CheckArgs \/ LoadLUT \/ SetupOk \/ SetupFail

LoopNext ==
    \/ ReadPacket \/ SendPacket \/ ReceiveFrame \/ ConvertToRGB
    \/ Upload \/ Dispatch \/ Synchronize \/ Download
    \/ AllocEncFrame \/ ConvertFromRGB \/ SendFrame
    \/ ReceivePacket \/ WritePacket \/ EndFrame \/ UnrefPacket

FlushNext ==
    \/ SignalDecoder \/ FlushReceiveFrame \/ FlushConvertToRGB
    \/ FlushUpload \/ FlushDispatch \/ FlushSynchronize \/ FlushDownload
    \/ FlushAllocEncFrame \/ FlushConvertFromRGB \/ FlushSendFrame
    \/ FlushReceivePacket \/ FlushWritePacket \/ FlushEndFrame
    \/ SignalEncoder \/ EncFlushAlloc \/ EncFlushReceivePacket \/ EncFlushWritePacket
    \/ WriteTrailer \/ Cleanup \/ Finish

Next == SetupNext \/ LoopNext \/ FlushNext

Spec == Init /\ [][Next]_vars

\* main is one thread that is never held up for good: a blocking call
\* returns, so a step that can be taken is taken.
Fairness == WF_vars(Next)

SpecLive == Init /\ [][Next]_vars /\ Fairness

\* The start of the program (argument check, LUT load, pipeline construction)
\* on every generated LUT file.
InitLUT ==
    /\ InitCommon
    /\ argc = 4
    /\ lutFile \in LutFiles
    /\ uninitSize \in UninitInts
    /\ ovfMode \in OvfModes
    /\ nofile = FALSE
    /\ input = <<>>

NextLUT == SetupNext

SpecLUT == InitLUT /\ [][NextLUT]_vars

\* What main holds when the pipeline is built (nofile not set).
RECURSIVE AcquiredUpTo(_)
AcquiredUpTo(i) ==
    IF i = 0 THEN <<>> ELSE AcquiredUpTo(i - 1) \o SetupSteps[i].acq

\* One thread of one dispatch, on every generated cube and pixel: the LUT is
\* what loadLUT made of the cube's file.
InitKernel ==
    /\ InitPipe
    /\ NoFrameWork
    /\ NoTimeWork
    /\ pc = "k_thread"
    /\ argc = 4
    /\ uninitSize = 0
    /\ nofile = FALSE
    /\ input = <<>>
    /\ setupIdx = Len(SetupSteps) + 1
    /\ acqOrder = AcquiredUpTo(Len(SetupSteps))
    /\ held = Range(acqOrder)
    /\ relOrder = <<>>
    /\ \E cube \in KernelCubes :
          /\ lutFile = cube.file
          /\ lutDen = cube.den
          /\ \E hostMode \in OvfModes :
                /\ lut = loadLUT(cube.file, uninitSize, hostMode)
                /\ lut.err = "none"
    /\ lutOnDevice = lut.data
    /\ ovfMode \in OvfModes
    /\ fround \in RoundModes
    /\ inPixel \in Pixels

NextKernel == KernelThread

SpecKernel == InitKernel /\ [][NextKernel]_vars

\* The cube of the frame round trips.
FrameCubes == {[file |-> WriteCube(2, WildFlat), den |-> 4]}

\* Frames through the device, thread by thread in any order: the pipeline
\* is built, the LUT is on the device, the first frame is in rgbFrame and
\* the two device buffers hold what cudaMalloc left in them.
InitFrame ==
    /\ InitPipe
    /\ NoTimeWork
    /\ pc = "r_upload"
    /\ argc = 4
    /\ uninitSize = 0
    /\ nofile = FALSE
    /\ input = <<>>
    /\ setupIdx = Len(SetupSteps) + 1
    /\ acqOrder = AcquiredUpTo(Len(SetupSteps))
    /\ held = Range(acqOrder)
    /\ relOrder = <<>>
    /\ \E cube \in FrameCubes :
          /\ lutFile = cube.file
          /\ lutDen = cube.den
          /\ lut = loadLUT(cube.file, uninitSize, "wrap")
    /\ lutOnDevice = lut.data
    /\ ovfMode = "wrap"
    /\ fround = "exact"
    /\ inPixel = NoPixel
    /\ \E s \in FrameShapes :
          /\ width = s[1]
          /\ height = s[2]
          /\ stride \in Strides(s[1])
    /\ frameNo = 1
    /\ hostFrame = Converted([o \in Offsets(FrameBytes(stride, height)) |-> PadByte], 1)
    /\ srcFrame = <<>>
    /\ d_input = [o \in Offsets(FrameBytes(stride, height)) |-> UnknownByte]
    /\ d_output = [o \in Offsets(FrameBytes(stride, height)) |-> UnknownByte]
    /\ outBefore = <<>>
    /\ toRun = {}
    /\ outsideLeft = FALSE

NextFrameTrip ==
    \/ FrameUpload \/ FrameLaunch \/ GridThread \/ GridThreadsOutside \/ FrameSynchronize
    \/ FrameDownload \/ NextFrame

SpecFrame == InitFrame /\ [][NextFrameTrip]_vars

\* The timestamps of a stream through the two rescales: main is about to set
\* the encoder's timebase (line 266), of every input timebase and frame rate.
InitTime ==
    /\ InitPipe
    /\ NoFrameWork
    /\ pc = "t_setup"
    /\ argc = 4
    /\ uninitSize = 0
    /\ ovfMode = "wrap"
    /\ nofile = FALSE
    /\ input = <<>>
    /\ lutFile = GoodLutFile
    /\ lut = loadLUT(GoodLutFile, uninitSize, "wrap")
    /\ lutOnDevice = lut.data
    /\ setupIdx = EncoderOpenStep
    /\ acqOrder = AcquiredUpTo(EncoderOpenStep - 1)
    /\ held = Range(acqOrder)
    /\ relOrder = <<>>
    /\ lutDen = 1
    /\ fround = "exact"
    /\ inPixel = NoPixel
    /\ inTb \in InTimeBases
    /\ rFrameRate \in FrameRates
    /\ encTb = NoRational
    /\ outTb = NoRational
    /\ decPts = NoTs
    /\ encPts = NoTs
    /\ outPts = NoTs
    /\ tsLog = {}

NextTime ==
    \/ TimebaseSetup
    \/ DecodeTs
    \/ RescaleFrame
    \/ RescalePacket

SpecTime == InitTime /\ [][NextTime]_vars

----------------------------------------------------------------------------
(* Properties. *)

Pos(seq, x) == CHOOSE i \in DOMAIN seq : seq[i] = x

DeviceResources == {"d_lut", "d_input", "d_output"}

\* C1: after a video packet was fed to the decoder and nothing failed while
\* it was processed, main reaches the end of the packet (line 461, the next
\* step being the next read) only when every frame the decoder had ready
\* was received (and so converted, transformed and sent to the encoder):
\* no frame is left ready.
C1_FramesDrainedBeforeNextRead ==
    (pc = "m_unref" /\ packet.video /\ ~unitErr) => decReady = <<>>

\* C2: an error answer in the processing loop abandons the packet or frame
\* in hand only: the loop is left (line 465 reached) only when every packet
\* of the input was read.
C2_AllPacketsRead ==
    pc = "d_signal" => input = <<>>

\* C3: in the decoder flush a failure on one frame skips that frame only:
\* the flush loop is left (line 561 reached) only when the decoder, having
\* taken the flush signal and not failed to hand out a frame, has no frame
\* left.
C3_FlushDrainsDecoder ==
    (pc = "e_signal" /\ decFlushed /\ lastRecv # "err") => decReady = <<>>

\* C4: a failed write loses that packet only: the encoder flush is left
\* (line 596 reached) only when the encoder has no packet left, unless
\* avcodec_receive_packet or av_packet_alloc failed.
C4_EncoderDrainedDespiteWriteError ==
    (pc = "trailer" /\ encFlushed /\ drainEnd \notin {"err", "alloc"})
        => encReady = <<>>

\* C5: whenever the process has ended, by whatever path, nothing acquired is
\* still held.
C5_NothingHeldAtExit ==
    pc = "exited" => held = {}

\* The resource classes of the teardown order.
ResClass(x) ==
    IF x \in {"swsCtxToRGB", "swsCtxFromRGB"} THEN "converters"
    ELSE IF x \in {"decFrame", "rgbFrame", "encFrame"} THEN "frames"
    ELSE IF x \in {"d_input", "d_output"} THEN "deviceFrames"
    ELSE x

\* C6: at normal completion, of two resources of different classes the one
\* acquired later was released earlier.
C6_ReverseOrderTeardown ==
    (pc = "exited" /\ exitAt = "done") =>
        \A a, b \in Range(acqOrder) :
            (ResClass(a) # ResClass(b) /\ Pos(acqOrder, a) < Pos(acqOrder, b)
             /\ a \in Range(relOrder) /\ b \in Range(relOrder))
                => Pos(relOrder, b) < Pos(relOrder, a)

\* The process ended on a configuration error: too few arguments, or a LUT
\* file, input video or output path that does not open.
ConfigError ==
    /\ pc = "exited"
    /\ \/ exitAt = "args"
       \/ exitAt = "loadLUT" /\ lut.err = "open"
       \/ exitAt \in {"avformat_open_input", "avio_open"}

\* C7: a configuration error ends the process with a non-zero status before
\* any device resource was allocated.
C7_ConfigErrorBeforeDevice ==
    ConfigError => (exitCode # 0 /\ Range(acqOrder) \cap DeviceResources = {})

\* loadLUT has returned or thrown.
Loaded == pc \notin {"args", "loadLUT"}

\* The number of data lines of a file after line h.
DataLinesAfter(file, h) ==
    Cardinality({i \in (h + 1)..Len(file) : file[i].k = "data"})

\* m = 3 * N^3 in exact arithmetic (N >= 1, m small: N > m leaves no chance).
IsThreeNCubed(m, N) == N <= m /\ 3 * N * N * N = m

\* The file has a validation error: no LUT_3D_SIZE line, an invalid one, or
\* a number of entries after it that is not 3 * N^3.
ValidationError(file) ==
    /\ file # NoFile
    /\ LET h == FindHeader(file, 1)
       IN  \/ h = 0
           \/ file[h].k = "hdrbad"
           \/ file[h].n <= 0
           \/ ~IsThreeNCubed(3 * DataLinesAfter(file, h), file[h].n)

\* C8: a LUT validation error ends the process at the load, with a non-zero
\* status and before any step of pipeline construction.
C8_ValidationErrorIsFatal ==
    (Loaded /\ ValidationError(lutFile)) =>
        /\ lut.err # "none"
        /\ pc = "exited" /\ exitAt = "loadLUT" /\ exitCode # 0
        /\ acqOrder = <<>>

\* No line LUT_3D_SIZE N with N > 0 stands before the first data line.
NoValidHeaderBeforeData(file) ==
    \A i \in DOMAIN file :
        (file[i].k = "hdr" /\ file[i].n > 0)
            => \E j \in 1..(i - 1) : file[j].k = "data"

\* C9: a file with no valid size header before its data fails to load with
\* the missing-size error (the invalid-size error counted as such).
C9_MissingSizeRejected ==
    (Loaded /\ lutFile # NoFile /\ NoValidHeaderBeforeData(lutFile))
        => lut.err \in {"missing", "invalid"}

\* C10: with a header LUT_3D_SIZE N, N > 0, and k data lines after it, load
\* succeeds exactly when 3k = 3 * N^3 in exact arithmetic, and the loaded
\* cube then holds 3 * N^3 floats.
C10_ExactEntryCount ==
    (Loaded /\ lutFile # NoFile) =>
        LET h == FindHeader(lutFile, 1)
        IN  (h > 0 /\ lutFile[h].k = "hdr" /\ lutFile[h].n > 0) =>
               /\ (lut.err = "none")
                     <=> IsThreeNCubed(3 * DataLinesAfter(lutFile, h), lutFile[h].n)
               /\ (lut.err = "none") => IsThreeNCubed(Len(lut.data), lutFile[h].n)

\* The data lines loadLUT accepts: those after the header line, in file
\* order; blank, comment and unparseable lines are not counted.
Accepted(file) ==
    LET h == FindHeader(file, 1)
    IN  IF h = 0 THEN <<>>
        ELSE SelectSeq(SubSeq(file, h + 1, Len(file)), LAMBDA l : l.k = "data")

\* The three floats of a data line.
Triple(l) == <<Float(l.r, lutDen), Float(l.g, lutDen), Float(l.b, lutDen)>>

\* The loaded cube is complete: 3 * N^3 floats for its size N.
CubeLoaded ==
    Loaded /\ lut.err = "none" /\ IsThreeNCubed(Len(lut.data), lut.size)

\* C11: when the data lines are in R-fastest order (line k, from 0, is the
\* entry for r = k mod N, g = (k div N) mod N, b = k div N^2), the lookup of
\* every lattice coordinate (r,g,b) returns the file's entry for (r,g,b),
\* which is line r + g*N + b*N^2.
C11_RFastestFileMatchesLookup ==
    CubeLoaded =>
        LET N == lut.size
        IN  \A r, g, b \in 0..(N - 1) :
                getLut(r, g, b, lut.data, N)
                    = Triple(Accepted(lutFile)[r + g * N + b * N * N + 1])

Ramp(len) == [i \in 1..len |-> i - 1]

\* C12: the k-th accepted data line (from 0) is stored at the flat offsets
\* 3k, 3k+1, 3k+2, nothing else is stored; the lookup of (r,g,b) returns
\* data line (r*N + g)*N + b; and a file written from a cube loads as that
\* cube's flat sequence.
C12_LoadPreservesFileOrder ==
    (Loaded /\ lut.err = "none") =>
        LET acc == Accepted(lutFile)
            N   == lut.size
        IN  /\ Len(lut.data) = 3 * Len(acc)
            /\ \A k \in 0..(Len(acc) - 1) :
                  <<lut.data[3 * k + 1], lut.data[3 * k + 2], lut.data[3 * k + 3]>>
                      = <<acc[k + 1].r, acc[k + 1].g, acc[k + 1].b>>
            /\ CubeLoaded =>
                  \A r, g, b \in 0..(N - 1) :
                      getLut(r, g, b, lut.data, N) = Triple(acc[(r * N + g) * N + b + 1])
            /\ \A n \in 1..2 :
                  lutFile = WriteCube(n, Ramp(3 * n * n * n)) => lut.data = Ramp(3 * n * n * n)

\* A cube of size 2 loaded from a file with data before the header and an
\* unparseable line among the entries.
C12_Witness ==
    /\ CubeLoaded
    /\ lut.size = 2
    /\ lutFile[1].k = "data"
    /\ \E i, j \in DOMAIN lutFile :
          /\ FindHeader(lutFile, 1) < i /\ i < j
          /\ lutFile[i].k = "junk" /\ lutFile[j].k = "data"

\* A thread of the kernel has run on its pixel.
ThreadDone == pc = "k_done"

White == <<255, 255, 255>>

\* The float at flat offset ((r*N + g)*N + b)*3 + c of a complete cube.
Entry(r, g, b, c) ==
    Float(lut.data[((r * lut.size + g) * lut.size + b) * 3 + c + 1], lutDen)

\* C13: a pixel of exactly (255,255,255) comes out as (255,255,255) and no
\* LUT entry is read for it, whatever the LUT; for every other pixel, one
\* with two channels at 255 included, the thread computes lattice indices
\* and reads the LUT.
C13_WhitePassThrough ==
    ThreadDone =>
        IF inPixel = White
            THEN outPixel = White /\ lutReads = {} /\ lattice = NoLattice
            ELSE lutReads # {} /\ lattice # NoLattice

\* White through a cube whose top corner is not white.
C13_Witness ==
    /\ ThreadDone
    /\ inPixel = White /\ outPixel = White
    /\ lut.size = 2
    /\ <<Entry(1, 1, 1, 0).n, Entry(1, 1, 1, 1).n, Entry(1, 1, 1, 2).n>> = <<2, 3, 1>>
    /\ lutDen = 4

\* 3 * N^3 as a long integer.
ThreeNCubed(N) == BigMul(BigMul(BigMul(ToBig(N), N), N), 3)

\* C14: for every LUT size and every non-white pixel, the lattice indices
\* of the corner fetches lie in [0, N-1] on every axis, the upper one being
\* min(lower + 1, N - 1), and every flat offset index, index+1, index+2
\* read lies in [0, 3*N^3 - 1].
C14_CornerFetchesInBounds ==
    (ThreadDone /\ inPixel # White) =>
        LET N == lut.size
        IN  /\ \A a \in 1..3 :
                  /\ lattice.i0[a] \in 0..(N - 1)
                  /\ lattice.i1[a] \in 0..(N - 1)
                  /\ lattice.i1[a] = (IF lattice.i0[a] + 1 <= N - 1
                                         THEN lattice.i0[a] + 1 ELSE N - 1)
            /\ \A index \in lutReads :
                  /\ index.hi >= 0
                  /\ BigLess(BigAdd(index, 2), ThreeNCubed(N))

\* The loaded cube is an identity cube of size N >= 2: the entry of (r,g,b)
\* is (r/(N-1), g/(N-1), b/(N-1)).
IdentityLoaded ==
    /\ lut.size >= 2
    /\ IsThreeNCubed(Len(lut.data), lut.size)
    /\ \A r, g, b \in 0..(lut.size - 1) :
          /\ Entry(r, g, b, 0).n * (lut.size - 1) = r * lutDen
          /\ Entry(r, g, b, 1).n * (lut.size - 1) = g * lutDen
          /\ Entry(r, g, b, 2).n * (lut.size - 1) = b * lutDen

Abs(x) == IF x < 0 THEN 0 - x ELSE x

\* C15: with an identity cube, every channel of the output of a non-white
\* pixel is within 1 of the input channel.
C15_IdentityWithinOne ==
    (ThreadDone /\ IdentityLoaded /\ inPixel # White) =>
        \A a \in 1..3 : Abs(outPixel[a] - inPixel[a]) <= 1

\* A pixel off the lattice on all three axes, one channel at 255, through the
\* largest identity cube.
C15_Witness ==
    /\ ThreadDone /\ IdentityLoaded
    /\ lut.size = MaxCube
    /\ inPixel = <<1, 255, 127>>
    /\ outPixel = inPixel
    /\ fround = "below"

\* a + t * (b - a) on fractions of equal denominator.
Mix(a, b, t) == Float(a.n * t.d + t.n * (b.n - a.n), a.d * t.d)

\* The fractional part of c * (N - 1) / 255, and its integer part.
Weight(c, N) == Float((c * (N - 1)) % 255, 255)
Lower(c, N)  == (c * (N - 1)) \div 255
Upper(c, N)  == IF Lower(c, N) + 1 <= N - 1 THEN Lower(c, N) + 1 ELSE N - 1

\* The reference value of channel c of pixel p: the corner of (i,j,k) is the
\* entry at the lower (0) or upper (1) index on each axis; blend along R the
\* 4 pairs that differ only in the R index, then along G, then along B.
RefValue(p, c) ==
    LET N  == lut.size
        ri == <<Lower(p[1], N), Upper(p[1], N)>>
        gi == <<Lower(p[2], N), Upper(p[2], N)>>
        bi == <<Lower(p[3], N), Upper(p[3], N)>>
        E(i, j, k) == Entry(ri[i + 1], gi[j + 1], bi[k + 1], c)
        AlongR(j, k) == Mix(E(0, j, k), E(1, j, k), Weight(p[1], N))
        AlongG(k) == Mix(AlongR(0, k), AlongR(1, k), Weight(p[2], N))
    IN  Mix(AlongG(0), AlongG(1), Weight(p[3], N))

\* Scale by 255, add 0.5, clamp to [0, 255], truncate (on the float the
\* device holds for the value).
RefByte(x) ==
    LET v == Rounded(PlusHalf(Times255(x)), fround)
        t == v.n \div v.d
    IN  IF t < 0 THEN 0 ELSE IF t > 255 THEN 255 ELSE t

Quarters == {Float(q, 4) : q \in 0..4}
Samples  == {Float(n, 4) : n \in {0 - 2, 0, 1, 4, 6}}

\* C16: for a non-white pixel and a complete cube every output channel is
\* the reference value; a blend of A and B at weight t in {0, 1/4, 1/2, 3/4,
\* 1} is (1 - t) * A + t * B; and a value below 0 gives the byte 0, one
\* above 1 the byte 255.
C16_TrilinearReference ==
    /\ (ThreadDone /\ inPixel # White /\ IsThreeNCubed(Len(lut.data), lut.size)) =>
          \A c \in 0..2 :
              LET x == RefValue(inPixel, c)
              IN  /\ outPixel[c + 1] = RefByte(x)
                  /\ outPixel[c + 1] \in 0..255
                  /\ x.n < 0 => outPixel[c + 1] = 0
                  /\ x.n > x.d => outPixel[c + 1] = 255
    /\ \A A, B \in Samples : \A t \in Quarters :
          LET y == LerpF(A, B, t)
          IN  y.n * 16 = ((4 - t.n) * A.n + t.n * B.n) * y.d

\* A pixel off the lattice on all three axes through the cube with entries
\* outside [0,1], one channel clamped at each end.
C16_Witness ==
    /\ ThreadDone
    /\ lut.size = 2 /\ lutDen = 4
    /\ \A a \in 1..3 : inPixel[a] \notin {0, 255}
    /\ \E a, b \in 0..2 :
          /\ RefValue(inPixel, a).n < 0 /\ outPixel[a + 1] = 0
          /\ RefValue(inPixel, b).n > RefValue(inPixel, b).d /\ outPixel[b + 1] = 255

\* The process ended at "Done".
Done == pc = "exited" /\ exitAt = "done"

Front(seq) == SubSeq(seq, 1, Len(seq) - 1)

\* The frames of a sequence of logged sends.
SentIds == [i \in DOMAIN sentToEnc |-> sentToEnc[i].frame.id]

\* C17: as long as no call has failed, the frames the kernel ran on and the
\* frames sent to the encoder are the frames the decoder has handed out, in
\* that order, each once, the frame in hand being at most one step behind;
\* at Done they are the same sequence, and the decoder holds no frame back.
C17_EveryDecodedFrameSentOnce ==
    ~runErr =>
        /\ transformed \in {decoded, Front(decoded)}
        /\ SentIds \in {transformed, Front(transformed)}
        /\ \A i, j \in DOMAIN decoded : i < j => decoded[i] < decoded[j]
        /\ Done => /\ SentIds = decoded
                   /\ transformed = decoded
                   /\ decPending = <<>> /\ decReady = <<>>

\* A run without a failure in which the decoder handed out three frames,
\* the last of them in the flush.
C17_Witness ==
    /\ Done /\ ~runErr
    /\ Len(decoded) = 3
    /\ SentIds = decoded
    /\ sentToEnc[1].at = "m_sendFrame"
    /\ sentToEnc[3].at = "f_sendFrame"

PhaseOrder == <<"decSignal", "encSignal", "trailer">>

\* The phase events of the log, without the sends and writes between them.
Phases == SelectSeq(phaseLog, LAMBDA e : e \in Range(PhaseOrder))

IsPrefix(a, b) == Len(a) <= Len(b) /\ a = SubSeq(b, 1, Len(a))

InDecoderFlush == pc \in {"f_recv", "f_toRGB", "f_upload", "f_kernel", "f_sync", "f_download",
                          "f_allocEnc", "f_fromRGB", "f_sendFrame", "f_recvPkt",
                          "f_write", "f_endFrame"}
InEncoderFlush == pc \in {"e_alloc", "e_recv", "e_write"}

\* C18: the decoder signal, the encoder signal and the trailer happen in
\* this order, each at most once and, in a run that reaches Done, each
\* exactly once; no frame is sent to the encoder after the encoder signal
\* and the decoder flush loop has ended by then; nothing is written after
\* the trailer, which is written only when the encoder drain has ended.  In
\* a run without a failure the two drains leave nothing behind: every frame
\* sent to the encoder has its packet written.
C18_FlushOrder ==
    /\ IsPrefix(Phases, PhaseOrder)
    /\ Done => Phases = PhaseOrder
    /\ \A i, j \in DOMAIN phaseLog :
          i < j => /\ phaseLog[i] = "trailer" => phaseLog[j] # "mux"
                   /\ phaseLog[i] = "encSignal" => phaseLog[j] # "send"
                   /\ phaseLog[j] = "decSignal" => phaseLog[i] \in {"send", "mux"}
    /\ (\E i \in DOMAIN phaseLog : phaseLog[i] = "encSignal") => ~InDecoderFlush
    /\ (\E i \in DOMAIN phaseLog : phaseLog[i] = "trailer")
          => pc \in {"cleanup", "finish", "exited"}
    /\ (InDecoderFlush \/ InEncoderFlush) => input = <<>> \/ runErr
    /\ (Done /\ ~runErr) =>
          /\ decPending = <<>> /\ decReady = <<>>
          /\ encPending = <<>> /\ encReady = <<>>
          /\ [j \in DOMAIN muxed |-> muxed[j].pkt.id] = SentIds

\* Done after frames were encoded and packets written in the loop, in the
\* decoder flush and in the encoder flush.
C18_Witness ==
    /\ Done
    /\ phaseLog = <<"send", "mux", "decSignal", "send", "mux", "encSignal", "mux", "trailer">>

\* C19: every frame sent to the encoder carries the pts of its decoded
\* frame counted in the encoder timebase (rescaled from the input stream's),
\* and every packet written carries that pts counted in the output stream
\* timebase (rescaled from the encoder's), wherever it was sent or written.
C19_TimestampsRescaled ==
    /\ \A i \in DOMAIN sentToEnc :
          sentToEnc[i].frame.pts = Ts(sentToEnc[i].frame.id, "enc")
    /\ \A j \in DOMAIN muxed :
          muxed[j].pkt.pts = Ts(muxed[j].pkt.id, "out")

\* Frames sent in the loop and in the decoder flush, packets written at all
\* three drain sites.
C19_Witness ==
    /\ {sentToEnc[i].at : i \in DOMAIN sentToEnc} = {"m_sendFrame", "f_sendFrame"}
    /\ {muxed[j].at : j \in DOMAIN muxed} = {"m_write", "f_write", "e_write"}

\* C20 as stated: every packet written has its decode timestamp unset.
C20_MuxedDtsUnset ==
    \A j \in DOMAIN muxed : muxed[j].pkt.dts = NoPts

\* C20: every frame sent to the encoder has pkt_dts unset, so that no decode
\* timestamp of the input passes through; a packet written carries the
\* decode timestamp the encoder gave it, rescaled from the encoder timebase
\* to the output stream timebase along with its pts.
C20_DtsFromEncoderRescaled ==
    /\ \A i \in DOMAIN sentToEnc : sentToEnc[i].frame.pkt_dts = NoPts
    /\ \A j \in DOMAIN muxed : muxed[j].pkt.dts = Ts(muxed[j].pkt.id, "out")

\* A packet written in the encoder flush, with the decode timestamp of the
\* encoder in the output stream timebase.
C20_Witness ==
    /\ muxed # <<>>
    /\ muxed[Len(muxed)].at = "e_write"
    /\ muxed[Len(muxed)].pkt.dts = Ts(muxed[Len(muxed)].pkt.id, "out")
    /\ sentToEnc[1].frame.pkt_dts = NoPts

\* C21: the process ends with status zero (after "Processing completed
\* successfully.") only when av_write_trailer did not fail, and every run
\* that was cut short ends with a non-zero status.
C21_FatalErrorExitsNonZero ==
    pc = "exited" =>
        /\ exitCode = 0 => ~trailerErr
        /\ exitAt # "done" => exitCode # 0

MainLoop == {"m_read", "m_send", "m_recv", "m_toRGB", "m_upload", "m_kernel", "m_sync",
             "m_download", "m_allocEnc", "m_fromRGB", "m_sendFrame", "m_recvPkt",
             "m_write", "m_endFrame", "m_unref"}

\* What the decoder, the kernel, the encoder and the muxer have been given
\* and have handed out.
CodecWork == <<decVars, encVars, muxed, sentToEnc, decoded, transformed, phaseLog, runErr>>

\* C23: reading a packet that is not of the video stream leads straight to
\* its release (line 461) and from there to the next read, and neither step
\* gives anything to the decoder, the kernel, the encoder or the muxer; with
\* such a packet in hand main is nowhere else in the loop.
C23_NonVideoDiscarded ==
    /\ [](( ~packet.video /\ packet # NoPacket /\ pc \in MainLoop)
              => pc \in {"m_read", "m_unref"})
    /\ [][ /\ (pc = "m_read" /\ input # <<>> /\ ~Head(input).video)
                 => /\ pc' = "m_unref"
                    /\ packet' = Head(input)
                    /\ UNCHANGED CodecWork
           /\ (pc = "m_unref" /\ ~packet.video)
                 => /\ pc' = "m_read"
                    /\ UNCHANGED CodecWork ]_vars

\* A packet of another stream about to be released while the decoder holds
\* a frame of an earlier video packet and more packets are to come.
C23_Witness ==
    /\ pc = "m_unref"
    /\ ~packet.video
    /\ decPending # <<>>
    /\ input # <<>>

\* The entries of devLog that are not frees.
DevCalls == SelectSeq(devLog, LAMBDA e : e.op # "free")

FreesOf(h) == {i \in DOMAIN devLog : devLog[i].op = "free" /\ h \in devLog[i].bufs}

UsesDevice == {"m_upload", "m_kernel", "m_sync", "m_download",
               "f_upload", "f_kernel", "f_sync", "f_download"}

\* C22: no device handle is freed twice; once a handle is freed no upload,
\* launch or download names it (the frees are the last device calls of the
\* run, after the last synchronization and the last download); no launch is
\* outstanding when a handle is freed; and wherever main is about to use
\* the device, the three handles are held.
C22_FreesAfterLastUse ==
    /\ \A h \in DeviceResources : Cardinality(FreesOf(h)) <= 1
    /\ \A i, j \in DOMAIN devLog :
          (i < j /\ devLog[i].op = "free")
              => /\ devLog[j].op = "free"
                 /\ devLog[j].bufs \cap devLog[i].bufs = {}
    /\ (\E i \in DOMAIN devLog : devLog[i].op = "free")
          => /\ inFlight = 0
             /\ pc \in {"finish", "exited"}
             /\ DevCalls # <<>> => DevCalls[Len(DevCalls)].op = "download"
    /\ \A h \in DeviceResources : FreesOf(h) # {} => h \notin held
    /\ pc \in UsesDevice => DeviceResources \subseteq held

\* Done after two frames went through the device, with the three handles
\* freed.
C22_Witness ==
    /\ Done
    /\ Len(DevCalls) = 8
    /\ \A h \in DeviceResources : FreesOf(h) # {}

DevRound == <<"upload", "launch", "sync", "download">>

\* The position of a device call in its round trip, and the call that
\* opened the round trip.
Turn(i)      == ((i - 1) % 4) + 1
RoundHead(i) == i - ((i - 1) % 4)

\* C28: the device calls of a run are round trips upload, launch,
\* synchronize, download in this order, each round trip on one frame and on
\* another frame than the round trip before; no launch is outstanding except
\* between a launch and the synchronization after it, so that a download
\* starts only after the kernel ended and an upload only after the download
\* before it, and there is never more than one launch outstanding.
C28_DeviceCallsInSequence ==
    /\ inFlight \in {0, 1}
    /\ inFlight = 1 <=> (DevCalls # <<>> /\ DevCalls[Len(DevCalls)].op = "launch")
    /\ \A i \in DOMAIN DevCalls :
          /\ DevCalls[i].op = DevRound[Turn(i)]
          /\ DevCalls[i].frame = DevCalls[RoundHead(i)].frame
          /\ i > 4 => DevCalls[i].frame > DevCalls[i - 4].frame
    /\ pc \in {"m_upload", "f_upload"}
          => DevCalls = <<>> \/ DevCalls[Len(DevCalls)].op = "download"
    /\ pc \in {"m_kernel", "f_kernel"} => DevCalls[Len(DevCalls)].op = "upload"
    /\ pc \in {"m_sync", "f_sync"} => DevCalls[Len(DevCalls)].op = "launch"
    /\ pc \in {"m_download", "f_download"}
          => DevCalls[Len(DevCalls)].op = "sync" /\ inFlight = 0
    /\ [i \in 1..(Len(DevCalls) \div 4) |-> DevCalls[4 * i].frame]
          \in {transformed, Front(transformed)}

\* A download about to start in the decoder flush, after a round trip in
\* the main loop.
C28_Witness ==
    /\ pc = "f_download"
    /\ Len(DevCalls) = 7
    /\ sentToEnc # <<>>
    /\ sentToEnc[1].at = "m_sendFrame"

\* C29: the decoder is sent no packet after the null packet, the encoder no
\* frame after the null frame; each is signalled at most once, the encoder
\* after the decoder and after the decoder flush loop has ended; once the
\* decoder is signalled main is no longer in the read loop.
C29_EndOfStreamProtocol ==
    /\ \A i, j \in DOMAIN codecLog :
          i < j => /\ codecLog[i] = "nullPacket" => codecLog[j] \notin {"packet", "nullPacket"}
                   /\ codecLog[i] = "nullFrame" => codecLog[j] \notin {"frame", "nullFrame"}
                   /\ codecLog[j] = "nullFrame" => codecLog[i] # "nullFrame"
    /\ (\E j \in DOMAIN codecLog : codecLog[j] = "nullFrame")
          => /\ \E i \in DOMAIN codecLog : codecLog[i] = "nullPacket"
             /\ ~InDecoderFlush
             /\ codecLog[Len(codecLog)] = "nullFrame"
    /\ (\E i \in DOMAIN codecLog : codecLog[i] = "nullPacket") => pc \notin MainLoop
    /\ Done => \E j \in DOMAIN codecLog : codecLog[j] = "nullFrame"

\* A run whose read loop ended on a failed avcodec_send_packet with a packet
\* unread, and whose decoder flush still sent a frame to the encoder.
C29_Witness ==
    /\ Done
    /\ input # <<>>
    /\ codecLog = <<"packet", "nullPacket", "frame", "nullFrame">>

\* C24: every run comes to its end: the process exits, either from the end
\* of main after the trailer and the cleanup (Done) or with status 1.
C24_RunEnds ==
    <>(pc = "exited" /\ (Done \/ exitCode = 1))

\* Done after each loop was gone through more than once: three frames
\* decoded, the last in the decoder flush, and a packet written in each of
\* the three drain loops.
C24_Witness ==
    /\ Done
    /\ input = <<>>
    /\ Len(decoded) = 3
    /\ {muxed[j].at : j \in DOMAIN muxed} = {"m_write", "f_write", "e_write"}

\* The pixels of the frame.
FramePixels == (0..(width - 1)) \X (0..(height - 1))

\* The kernel's transform of three bytes, with the cube of the run.
Transform(p) == applyLUTKernel(p, lut.data, lut.size, fround)

\* The pixel at row y, column x of a host frame.
HostPixel(buf, x, y) == PixelAt(buf, HostOffset(x, y, 0))

\* C25: after the download the pixel at row y, column x of the host frame
\* is the kernel's transform of the pixel that was at row y, column x of the
\* host frame at the upload, whatever the row stride.
C25_RoundTripPixelwise ==
    pc = "r_next" =>
        \A q \in FramePixels :
            HostPixel(hostFrame, q[1], q[2]) = Transform(HostPixel(srcFrame, q[1], q[2]))

\* The thread of a pixel is still to run.
Pending(q) == \E t \in toRun : ThreadCoord(t) = q

\* C26: the grid of a launch has exactly one thread for each pixel of the
\* frame; a thread outside the frame stores nothing; two threads inside
\* store to disjoint offsets, all inside the buffer.  While the threads run
\* in whatever order, the three bytes of d_output at the index of a pixel
\* are those of before the launch until the pixel's thread has run and the
\* transform of the input bytes at that index from then on, and every other
\* byte of d_output stays what it was: when all have run, d_output is the
\* same whatever the order was.
C26_TilesCoverFrameOnce ==
    /\ pc = "r_launch" =>
          /\ \A q \in FramePixels :
                Cardinality({t \in GridThreads(width, height) : ThreadCoord(t) = q}) = 1
          /\ \A t \in GridThreads(width, height) :
                /\ ThreadStores(t, width, height) \subseteq Offsets(FrameBytes(stride, height))
                /\ ThreadCoord(t) \notin FramePixels => ThreadStores(t, width, height) = {}
          /\ \A t, u \in ThreadsInFrame(width, height) :
                t # u => ThreadStores(t, width, height) \cap ThreadStores(u, width, height) = {}
    /\ pc \in {"r_threads", "r_download"} =>
          /\ \A q \in FramePixels :
                LET idx == PixelIndex(q[1], q[2], width)
                IN  PixelAt(d_output, idx) =
                        IF Pending(q) THEN PixelAt(outBefore, idx)
                        ELSE ThreadPixel(PixelAt(d_input, idx))
          /\ \A o \in DOMAIN d_output :
                o >= 3 * width * height => d_output[o] = outBefore[o]
    /\ pc = "r_download" => toRun = {} /\ ~outsideLeft

\* A frame of one row, a pixel wider than a tile: the one thread of the
\* second tile inside the frame has run, the threads of the first tile have
\* not.
C26_Witness ==
    /\ pc = "r_threads"
    /\ width = TileDim + 1
    /\ height = 1
    /\ ~Pending(<<TileDim, 0>>)
    /\ \A x \in 0..(TileDim - 1) : Pending(<<x, 0>>)

\* C27: the floats behind d_lut are the loaded cube throughout; from an
\* upload on, the bytes behind d_input are the bytes uploaded, until the
\* next upload; while the kernel is dispatched the host frame is not
\* touched; and the only bytes a dispatch changes are bytes of d_output at
\* the indices of the pixels.
C27_OnlyOutputWritten ==
    /\ lutOnDevice = lut.data
    /\ srcFrame # <<>> => d_input = srcFrame
    /\ pc \in {"r_launch", "r_threads", "r_download"} => hostFrame = srcFrame
    /\ pc \in {"r_threads", "r_download"} =>
          \A o \in DOMAIN d_output :
              d_output[o] # outBefore[o] => o < 3 * width * height

\* The second frame is in rgbFrame and not yet uploaded: d_input still holds
\* the first frame, and d_output what the threads stored.
C27_Witness ==
    /\ pc = "r_upload"
    /\ frameNo = 2
    /\ d_input = srcFrame
    /\ hostFrame # srcFrame
    /\ d_output # outBefore

\* C30: every frame's timestamp is the same after the rescale to the encoder
\* timebase and back to the output timebase (which equals the input
\* timebase), and frames with different timestamps have different encoder
\* timestamps.
C30_TimestampsSurvive ==
    /\ \A e \in tsLog : outTb = inTb /\ e.out = e.dec
    /\ \A e, f \in tsLog : e.dec # f.dec => e.enc # f.enc

====
